---- MODULE Spec2Model ----
(***************************************************************************)
(* The agent loop of pi_core (core/src/lib.rs, Agent::run_to_end and       *)
(* Agent::exec_tool_call) together with its caller's REPL loop             *)
(* (app/src/main.rs).  The provider and the tools are the environment:     *)
(* what provider.chat and tool.execute return is chosen nondeterministic-  *)
(* ally from small sets.  run_to_end is an async fn, so it is cut into     *)
(* steps at its suspension points (the two awaits).                        *)
(*                                                                         *)
(* The second part models the streaming adapter                            *)
(* (adapters/adapter_openai/src/lib.rs): the StreamAssembler (AsmSpec),    *)
(* next_sse_data (SseSpec), and the producer task of chat_stream with its  *)
(* event channel and its consumer (StreamSpec).  Each specification        *)
(* leaves the variables of the others at their initial values.             *)
(*                                                                         *)
(* The third part models the library around them: the constructors and     *)
(* pure functions of the contracts and the core (LibSpec), the AiClient    *)
(* with its ModelCatalog and ProviderHub (ClientSpec), and, of             *)
(* adapters/adapter_fs/src/lib.rs, the JsonDirSessionStore with a save cut *)
(* at its file operations (StoreSpec) and the edit tool (EditSpec).        *)
(***************************************************************************)
EXTENDS Integers, Sequences, FiniteSets, TLC

\* ------------------------------------------------------------------ bounds
MaxStepsBound == 2      \* cfg.max_steps is drawn from 0..MaxStepsBound
MaxCalls == 3           \* longest tool_calls list a provider response carries
MaxPreLen == 1          \* most messages, the System one aside, a run starts from

\* ------------------------------------------------------- Option<T> values
None == [some |-> FALSE]
Some(v) == [some |-> TRUE, value |-> v]

\* ------------------------------------------------------------ ChatMessage
system(content) == [role |-> "system", content |-> content]
user(content) == [role |-> "user", content |-> content]
assistant(content, tool_calls) ==
    [role |-> "assistant", content |-> content, tool_calls |-> tool_calls]
tool(tool_call_id, content) ==
    [role |-> "tool", tool_call_id |-> tool_call_id, content |-> content]

ToolCall(id, name, arguments) == [id |-> id, name |-> name, arguments |-> arguments]

\* ---------------------------------------------------------------- PiError
PiError(kind, msg) == [tag |-> "err", kind |-> kind, msg |-> msg]
Ok(v) == [tag |-> "ok", value |-> v]
Pending == [tag |-> "pending"]

\* ---------------------------------------------------------------- ToolSet
\* ToolSet::new: the tools are collected as they come; a tool is its spec
\* name. The constructor returns the set itself, it has no failure.
ToolSet_new(tools) == [tools |-> tools]

\* ToolSet::specs: the specs of the tools, in the order of insertion.
ToolSet_specs(self) == self.tools

\* The agent's registry is the list of the registered tools' spec names.
ToolSetTools == <<"echo", "read">>

\* ToolSet::get: the first tool whose spec name equals `name`, if any.
ToolSet_get(name) ==
    LET hits == {j \in 1..Len(ToolSetTools) : ToolSetTools[j] = name}
    IN  IF hits = {} THEN None
        ELSE Some(CHOOSE j \in hits : \A h \in hits : j <= h)

\* ----------------------------------------------- inputs of the environment
UserInputs == {"go"}
SystemPrompts == {None, Some("sys")}
ModelIds == {"gpt"}
Temperatures == {Some("0.2")}
MaxTokens == {None}
CallNames == {"echo", "nope"}
AssistantContents == {"done"}
ToolErrors == {PiError("Tool", "boom")}
ProviderErrors == {PiError("Http", "down")}

RECURSIVE SeqsUpTo(_, _)
SeqsUpTo(S, n) ==
    IF n = 0 THEN {<<>>}
    ELSE LET shorter == SeqsUpTo(S, n - 1)
         IN  shorter \cup {Append(s, e) : s \in {t \in shorter : Len(t) = n - 1}, e \in S}

\* The provider numbers the calls of one message: the j-th call has id "c<j>"
\* and its arguments are {"text": t} with the j-th of these texts.
CallIdAt(j) == <<"c1", "c2", "c3", "c4", "c5">>[j]
CallTextAt(j) == <<"hi", "ho", "hum", "ha", "he">>[j]

\* The tool_calls of an assistant message that calls the tools `names` in order.
CallsOf(names) ==
    [j \in 1..Len(names) |-> ToolCall(CallIdAt(j), names[j], [text |-> CallTextAt(j)])]

\* What provider.chat can return: Ok(ChatResponse{assistant: m, ..}) or Err(e).
\* The assistant field has type ChatMessage, so it can be any variant.
ChatResults ==
    {Ok(assistant(c, CallsOf(names))) :
        c \in AssistantContents, names \in SeqsUpTo(CallNames, MaxCalls)}
    \cup {Ok(system("y"))}
    \cup ProviderErrors

\* What tool.execute can return for these arguments: Err(e), or
\* Ok(ToolResult{content, ..}) with the content the echo tool computes.
ExecResults(arguments) == {Ok(arguments.text)} \cup ToolErrors

\* The transcripts a caller starts from: a new session, or a stored one
\* (store.load(..).unwrap_or_default() in main).
InitialTranscripts == {<<>>, <<user("old")>>}

\* ------------------------------------------------------------------ state
VARIABLES
    transcript,   \* the caller's Transcript (Vec<ChatMessage>)
    cfg,          \* AgentConfig: system_prompt, max_steps
    pc,           \* position inside run_to_end
    user_input,   \* argument of the current run
    step,         \* iterations of `for _ in 0..max_steps` completed
    tool_calls,   \* the clone of the assistant's tool_calls being iterated
    i,            \* 1-based position of `call` in tool_calls
    result,       \* what run_to_end returned (Pending while it runs)
    executing,    \* positions of the tool.execute futures in flight
    pre,          \* the transcript as it was when the current run started
    requests,     \* the ChatRequests sent in the current run
    respLog,      \* what provider.chat returned, in order, in the current run
    execLog       \* what tool.execute returned, in order, in the current run

\* The state of one streamed completion (chat_stream and its StreamAssembler).
VARIABLES
    asm,          \* the StreamAssembler: content, tools, usage
    applied,      \* the chunks asm.apply accepted, in order
    emitted,      \* the events handed to tx.send, in order
    final,        \* what was sent on res_tx (Pending before)
    spc,          \* position of the producer task
    buf,          \* the text received and not yet consumed by next_sse_data
    extracted,    \* the calls of next_sse_data so far: buffer before, data returned
    reads,        \* items the transport has yielded so far
    pending,      \* events of the current chunk still to be sent
    outcome,      \* the error to send on res_tx once the Error event is sent
    queue,        \* the events in the mpsc channel
    rx,           \* the receiver: "alive" or "dropped"
    dropPoint,    \* where the producer was when the receiver was dropped
    received,     \* the events the consumer has taken from the channel
    transport     \* the body: the bytes yielded so far and, where the body is
                  \* fixed beforehand, the bytes still to come

\* The state of the library around the agent: the AiClient with its catalog
\* and hub, the directory the session store and the file tools work on, and
\* the call of a constructor or pure function under examination.
VARIABLES
    models,       \* ModelCatalog.models, in insertion order
    providers,    \* ProviderHub.map: the (provider id, provider) pairs
    invoked,      \* the calls made on providers, in order
    op,           \* the operation called last, with its arguments
    ret,          \* what that operation returned (Pending before)
    upstream,     \* the ChatStream the provider returned: events left, result
    consumed,     \* the events the consumer has polled from AiClient's stream
    files,        \* the directory: the content of each file, by path
    saving,       \* the save in progress: its position, id, text, bytes written
    stored        \* the transcript of the latest completed save, by session id

agentVars == <<transcript, cfg, pc, user_input, step, tool_calls, i, result,
               executing, pre, requests, respLog, execLog>>
asmVars == <<asm, applied, emitted, final, spc>>
sseVars == <<buf, extracted>>
chanVars == <<reads, pending, outcome, queue, rx, dropPoint, received, transport>>
libVars == <<models, providers, invoked, op, ret, upstream, consumed,
             files, saving, stored>>
nonAgentVars == <<asm, applied, emitted, final, spc, buf, extracted,
                  reads, pending, outcome, queue, rx, dropPoint, received, transport,
                  models, providers, invoked, op, ret, upstream, consumed,
                  files, saving, stored>>
nonLibVars == <<agentVars, asmVars, sseVars, chanVars>>

vars == <<transcript, cfg, pc, user_input, step, tool_calls, i, result,
          executing, pre, requests, respLog, execLog,
          asm, applied, emitted, final, spc, buf, extracted,
          reads, pending, outcome, queue, rx, dropPoint, received, transport,
          models, providers, invoked, op, ret, upstream, consumed,
          files, saving, stored>>

Terminal == {"done", "failed"}

\* No channel has been made.
NoChannel ==
    /\ reads = 0
    /\ pending = <<>>
    /\ outcome = None
    /\ queue = <<>>
    /\ rx = "alive"
    /\ dropPoint = ""
    /\ received = <<>>
    /\ transport = [sent |-> <<>>, rest |-> <<>>]

\* No client, no directory, no call.
NoLib ==
    /\ models = <<>>
    /\ providers = {}
    /\ invoked = <<>>
    /\ op = None
    /\ ret = Pending
    /\ upstream = None
    /\ consumed = <<>>
    /\ files = <<>>
    /\ saving = None
    /\ stored = <<>>

\* No completion is being streamed.
NoStream ==
    /\ asm = [content |-> "", tools |-> <<>>, usage |-> None]
    /\ applied = <<>>
    /\ emitted = <<>>
    /\ final = Pending
    /\ spc = "none"
    /\ buf = <<>>
    /\ extracted = <<>>
    /\ NoChannel

Init ==
    /\ transcript \in InitialTranscripts
    /\ cfg \in [model : ModelIds, system_prompt : SystemPrompts,
                max_steps : 0..MaxStepsBound, temperature : Temperatures,
                max_tokens : MaxTokens]
    /\ pc = "idle"
    /\ user_input = ""
    /\ step = 0
    /\ tool_calls = <<>>
    /\ i = 0
    /\ result = Pending
    /\ executing = {}
    /\ pre = transcript
    /\ requests = <<>>
    /\ respLog = <<>>
    /\ execLog = <<>>
    /\ NoStream
    /\ NoLib

\* Variant: the system prompt is pushed whenever one is configured.
Preamble_always(tr, sys, input) ==
    (IF sys.some THEN <<system(sys.value)>> ELSE <<>>) \o <<user(input)>>

\* The messages run_to_end pushes before the loop (lines 198-204).
Preamble(tr, sys, input) ==
    (IF tr = <<>> /\ sys.some THEN <<system(sys.value)>> ELSE <<>>) \o <<user(input)>>

\* Entry of run_to_end up to the loop.
RunToEnd(input) ==
    /\ pc \in {"idle"} \cup Terminal
    /\ Cardinality({n \in 1..Len(transcript) : transcript[n].role # "system"}) <= MaxPreLen
    /\ transcript' = transcript \o Preamble(transcript, cfg.system_prompt, input)
    /\ pc' = "loop"
    /\ user_input' = input
    /\ step' = 0
    /\ tool_calls' = <<>>
    /\ i' = 0
    /\ result' = Pending
    /\ pre' = transcript
    /\ requests' = <<>>
    /\ respLog' = <<>>
    /\ execLog' = <<>>
    /\ UNCHANGED <<cfg, executing>>
    /\ UNCHANGED nonAgentVars

\* Variant: an inclusive range, `0..=max_steps`.
LoopContinues_inclusive(n, max) == n <= max

\* `for _ in 0..max_steps`: is there another iteration?
LoopContinues(n, max) == n < max

\* Variant: the request carries the transcript without its newest message.
AgentRequest_stale(self, tr) ==
    [model |-> self.model, messages |-> SubSeq(tr, 1, Len(tr) - 1),
     tools |-> ToolSet_specs(ToolSet_new(ToolSetTools)),
     temperature |-> self.temperature, max_tokens |-> self.max_tokens]

\* The ChatRequest of one iteration (lines 207-213): the configured model, a
\* clone of the whole transcript, the specs of the tool set and the
\* configured sampling parameters.
AgentRequest(self, tr) ==
    [model |-> self.model, messages |-> tr,
     tools |-> ToolSet_specs(ToolSet_new(ToolSetTools)),
     temperature |-> self.temperature, max_tokens |-> self.max_tokens]

\* Loop head: build the ChatRequest from a clone of the transcript and call
\* provider.chat (suspends).
ProviderCall ==
    /\ pc = "loop"
    /\ LoopContinues(step, cfg.max_steps)
    /\ requests' = Append(requests, AgentRequest(cfg, transcript))
    /\ pc' = "chat"
    /\ UNCHANGED <<transcript, cfg, user_input, step, tool_calls, i, result,
                   executing, pre, respLog, execLog>>
    /\ UNCHANGED nonAgentVars

\* Variant: running out of iterations is reported as success.
MaxStepsReached_ok ==
    /\ pc = "loop"
    /\ ~LoopContinues(step, cfg.max_steps)
    /\ result' = Ok("unit")
    /\ pc' = "done"
    /\ UNCHANGED <<transcript, cfg, user_input, step, tool_calls, i,
                   executing, pre, requests, respLog, execLog>>
    /\ UNCHANGED nonAgentVars

\* The loop ran out of iterations: line 241.
MaxStepsReached ==
    /\ pc = "loop"
    /\ ~LoopContinues(step, cfg.max_steps)
    /\ result' = PiError("Provider", "max_steps reached")
    /\ pc' = "failed"
    /\ UNCHANGED <<transcript, cfg, user_input, step, tool_calls, i,
                   executing, pre, requests, respLog, execLog>>
    /\ UNCHANGED nonAgentVars

\* Variant: a failed provider call rolls the transcript back by one message.
OnChat_rollback(tr, r) ==
    IF r.tag = "err"
    THEN [transcript |-> SubSeq(tr, 1, Len(tr) - 1), pc |-> "failed", result |-> r,
          tool_calls |-> <<>>]
    ELSE IF r.value.role # "assistant"
    THEN [transcript |-> tr, pc |-> "failed",
          result |-> PiError("Provider", "provider returned non-assistant message"),
          tool_calls |-> <<>>]
    ELSE IF r.value.tool_calls = <<>>
    THEN [transcript |-> Append(tr, r.value), pc |-> "done", result |-> Ok("unit"),
          tool_calls |-> <<>>]
    ELSE [transcript |-> Append(tr, r.value), pc |-> "calls", result |-> Pending,
          tool_calls |-> r.value.tool_calls]

\* Variant: the returned message is pushed before its variant is checked.
OnChat_pushFirst(tr, r) ==
    IF r.tag = "err"
    THEN [transcript |-> tr, pc |-> "failed", result |-> r, tool_calls |-> <<>>]
    ELSE IF r.value.role # "assistant"
    THEN [transcript |-> Append(tr, r.value), pc |-> "failed",
          result |-> PiError("Provider", "provider returned non-assistant message"),
          tool_calls |-> <<>>]
    ELSE IF r.value.tool_calls = <<>>
    THEN [transcript |-> Append(tr, r.value), pc |-> "done", result |-> Ok("unit"),
          tool_calls |-> <<>>]
    ELSE [transcript |-> Append(tr, r.value), pc |-> "calls", result |-> Pending,
          tool_calls |-> r.value.tool_calls]

\* What the agent does with the value of `self.provider.chat(req).await`:
\* the next transcript, position and result.
OnChat(tr, r) ==
    IF r.tag = "err"
    THEN [transcript |-> tr, pc |-> "failed", result |-> r, tool_calls |-> <<>>]
    ELSE IF r.value.role # "assistant"
    THEN [transcript |-> tr, pc |-> "failed",
          result |-> PiError("Provider", "provider returned non-assistant message"),
          tool_calls |-> <<>>]
    ELSE IF r.value.tool_calls = <<>>
    THEN [transcript |-> Append(tr, r.value), pc |-> "done", result |-> Ok("unit"),
          tool_calls |-> <<>>]
    ELSE [transcript |-> Append(tr, r.value), pc |-> "calls", result |-> Pending,
          tool_calls |-> r.value.tool_calls]

\* provider.chat returns r; lines 215-234.
ChatReturn(r) ==
    /\ pc = "chat"
    /\ LET o == OnChat(transcript, r)
       IN  /\ transcript' = o.transcript
           /\ pc' = o.pc
           /\ result' = o.result
           /\ tool_calls' = o.tool_calls
    /\ i' = 1
    /\ respLog' = Append(respLog, r)
    /\ UNCHANGED <<cfg, user_input, step, executing, pre, requests, execLog>>
    /\ UNCHANGED nonAgentVars

\* `for call in tool_calls` has no call left: the iteration of the outer loop ends.
TurnEnds ==
    /\ pc = "calls"
    /\ i > Len(tool_calls)
    /\ step' = step + 1
    /\ pc' = "loop"
    /\ UNCHANGED <<transcript, cfg, user_input, tool_calls, i, result,
                   executing, pre, requests, respLog, execLog>>
    /\ UNCHANGED nonAgentVars

\* Variant: a call to an unknown tool is skipped.
UnknownTool_skip ==
    /\ pc = "calls"
    /\ i <= Len(tool_calls)
    /\ ~ToolSet_get(tool_calls[i].name).some
    /\ i' = i + 1
    /\ UNCHANGED <<transcript, cfg, pc, user_input, step, tool_calls, result,
                   executing, pre, requests, respLog, execLog>>
    /\ UNCHANGED nonAgentVars

\* Variant: the failed lookup is also reported to the model as a Tool message.
UnknownTool_push ==
    /\ pc = "calls"
    /\ i <= Len(tool_calls)
    /\ ~ToolSet_get(tool_calls[i].name).some
    /\ transcript' = Append(transcript, tool(tool_calls[i].id, "unknown tool"))
    /\ result' = PiError("Tool", "unknown tool: " \o tool_calls[i].name)
    /\ pc' = "failed"
    /\ UNCHANGED <<cfg, user_input, step, tool_calls, i,
                   executing, pre, requests, respLog, execLog>>
    /\ UNCHANGED nonAgentVars

\* exec_tool_call, first half: the lookup failed.
UnknownTool ==
    /\ pc = "calls"
    /\ i <= Len(tool_calls)
    /\ ~ToolSet_get(tool_calls[i].name).some
    /\ result' = PiError("Tool", "unknown tool: " \o tool_calls[i].name)
    /\ pc' = "failed"
    /\ UNCHANGED <<transcript, cfg, user_input, step, tool_calls, i,
                   executing, pre, requests, respLog, execLog>>
    /\ UNCHANGED nonAgentVars

\* Variant: the calls are joined, all executes are started together.
Started_all(idx, calls) == idx..Len(calls)

\* The positions whose tool.execute is started when `for call in tool_calls`
\* reaches position idx: `exec_tool_call(..).await` is awaited inside the loop
\* body, so it is that one call only.
Started(idx, calls) == {idx}

\* exec_tool_call, first half: the lookup succeeded and tool.execute is
\* called (suspends).
ExecToolCall ==
    /\ pc = "calls"
    /\ i <= Len(tool_calls)
    /\ ToolSet_get(tool_calls[i].name).some
    /\ executing' = executing \cup Started(i, tool_calls)
    /\ pc' = "exec"
    /\ UNCHANGED <<transcript, cfg, user_input, step, tool_calls, i, result,
                   pre, requests, respLog, execLog>>
    /\ UNCHANGED nonAgentVars

\* Variant: the Tool message carries the tool's name instead of the call id.
OnExec_name(tr, call, out) ==
    IF out.tag = "err"
    THEN [transcript |-> tr, pc |-> "failed", result |-> out]
    ELSE [transcript |-> Append(tr, tool(call.name, out.value)), pc |-> "calls",
          result |-> Pending]

\* Variant: a tool error is handed to the model and the loop goes on.
OnExec_swallow(tr, call, out) ==
    IF out.tag = "err"
    THEN [transcript |-> Append(tr, tool(call.id, out.msg)), pc |-> "calls",
          result |-> Pending]
    ELSE [transcript |-> Append(tr, tool(call.id, out.value)), pc |-> "calls",
          result |-> Pending]

\* What exec_tool_call does with the value of `tool.execute(..).await`.
OnExec(tr, call, out) ==
    IF out.tag = "err"
    THEN [transcript |-> tr, pc |-> "failed", result |-> out]
    ELSE [transcript |-> Append(tr, tool(call.id, out.value)), pc |-> "calls",
          result |-> Pending]

\* tool.execute returns out; lines 255-257 and 237.
ExecReturn ==
    /\ pc = "exec"
    /\ i \in executing
    /\ \E out \in ExecResults(tool_calls[i].arguments) :
          /\ LET o == OnExec(transcript, tool_calls[i], out)
             IN  /\ transcript' = o.transcript
                 /\ pc' = o.pc
                 /\ result' = o.result
                 /\ i' = IF o.pc = "calls" THEN i + 1 ELSE i
          /\ execLog' = Append(execLog, out)
    /\ executing' = executing \ {i}
    /\ UNCHANGED <<cfg, user_input, step, tool_calls, pre, requests, respLog>>
    /\ UNCHANGED nonAgentVars

\* The REPL's /reset between two runs.
Reset ==
    /\ pc \in Terminal
    /\ transcript # <<>>
    /\ transcript' = <<>>
    /\ pc' = "idle"
    /\ pre' = <<>>
    /\ result' = Pending
    /\ requests' = <<>>
    /\ respLog' = <<>>
    /\ execLog' = <<>>
    /\ user_input' = ""
    /\ step' = 0
    /\ tool_calls' = <<>>
    /\ i' = 0
    /\ UNCHANGED <<cfg, executing>>
    /\ UNCHANGED nonAgentVars

\* The steps of a run after its entry.
RunStep ==
    \/ ProviderCall
    \/ MaxStepsReached
    \/ \E r \in ChatResults : ChatReturn(r)
    \/ TurnEnds
    \/ UnknownTool
    \/ ExecToolCall
    \/ ExecReturn

Next ==
    \/ \E input \in UserInputs : RunToEnd(input)
    \/ RunStep
    \/ Reset

Spec == Init /\ [][Next]_vars

\* provider.chat and tool.execute return, and the agent's task is scheduled:
\* every step of a started run is eventually taken.
FairSpec == Spec /\ WF_vars(RunStep)

TypeOK ==
    /\ pc \in {"idle", "loop", "chat", "calls", "exec", "done", "failed"}
    /\ step \in 0..MaxStepsBound

\* ------------------------------------------------------------ observations
Last(s) == s[Len(s)]
IsPrefix(s, t) == Len(s) <= Len(t) /\ SubSeq(t, 1, Len(s)) = s

\* The messages the current run has appended so far.
Appended == SubSeq(transcript, Len(pre) + 1, Len(transcript))

\* provider.chat invocations and tool.execute invocations of the current run.
ProviderCalls == Len(requests)
ToolExecutions == Len(execLog) + Cardinality(executing)

IsAssistant(r) == r.tag = "ok" /\ r.value.role = "assistant"
Registered(name) == \E j \in 1..Len(ToolSetTools) : ToolSetTools[j] = name
RoleCount(msgs, role) == Cardinality({n \in 1..Len(msgs) : msgs[n].role = role})

\* Tool(c1.id, r1), ..., Tool(cn.id, rn) for the first n calls and their outputs.
ToolMsgs(calls, outs, n) == [j \in 1..n |-> tool(calls[j].id, outs[j].value)]

\* The messages of the turns: each assistant message followed by the Tool
\* messages of its calls, the outputs taken in order from outs.
RECURSIVE TurnsOf(_, _)
TurnsOf(resps, outs) ==
    IF resps = <<>> THEN <<>>
    ELSE LET m == Head(resps).value
             k == Len(m.tool_calls)
         IN  <<m>> \o ToolMsgs(m.tool_calls, outs, k)
                 \o TurnsOf(Tail(resps), SubSeq(outs, k + 1, Len(outs)))

RECURSIVE CallCount(_)
CallCount(resps) ==
    IF resps = <<>> THEN 0
    ELSE Len(Head(resps).value.tool_calls) + CallCount(Tail(resps))

\* The outputs of the tool executions of the current turn (the last n of the run).
TurnOuts(n) == SubSeq(execLog, Len(execLog) - n + 1, Len(execLog))

\* The transcript as it is while the current turn has appended its assistant
\* message and the Tool messages of its first n calls.
TurnTranscript(n, outs) ==
    Last(requests).messages \o <<Last(respLog).value>> \o ToolMsgs(tool_calls, outs, n)

\* The last response is an assistant message calling an unregistered tool.
UnknownPositions ==
    IF respLog # <<>> /\ IsAssistant(Last(respLog))
    THEN {j \in 1..Len(Last(respLog).value.tool_calls) :
             ~Registered(Last(respLog).value.tool_calls[j].name)}
    ELSE {}
FirstUnknown == CHOOSE j \in UnknownPositions : \A h \in UnknownPositions : j <= h
UnknownToolError(name) == PiError("Tool", "unknown tool: " \o name)

\* ------------------------------------------------------------------ claims

\* C1: a run returns Ok exactly when it is done, and then what it appended is
\* an optional System message, User(user_input), for each non-final turn the
\* assistant message with its calls followed by the Tool messages of these
\* calls in order with the tools' outputs, and last an assistant message
\* without tool calls.
C1_OkShape ==
    /\ (result = Ok("unit")) <=> (pc = "done")
    /\ pc = "done" =>
        /\ respLog # <<>>
        /\ \A n \in 1..Len(respLog) : IsAssistant(respLog[n])
        /\ \A n \in 1..(Len(respLog) - 1) : respLog[n].value.tool_calls # <<>>
        /\ Last(respLog).value.tool_calls = <<>>
        /\ \A n \in 1..Len(execLog) : execLog[n].tag = "ok"
        /\ Len(execLog) = CallCount(respLog)
        /\ \E sys \in {<<>>} \cup {<<system(p.value)>> : p \in SystemPrompts \ {None}} :
              Appended = sys \o <<user(user_input)>> \o TurnsOf(respLog, execLog)
        /\ Last(transcript).role = "assistant"
        /\ Last(transcript).tool_calls = <<>>

C1_Witness ==
    /\ pc = "done"
    /\ Len(respLog) = 2
    /\ Len(respLog[1].value.tool_calls) = 2
    /\ execLog[1] # execLog[2]

\* Every response so far is an assistant message with k calls to registered
\* tools, and every execution so far succeeded.
AlwaysToolful(k) ==
    /\ \A n \in 1..Len(respLog) :
          /\ IsAssistant(respLog[n])
          /\ Len(respLog[n].value.tool_calls) = k
          /\ \A j \in 1..k : Registered(respLog[n].value.tool_calls[j].name)
    /\ \A n \in 1..Len(execLog) : execLog[n].tag = "ok"

\* C2: against a provider that always returns k >= 1 calls to registered
\* tools that succeed, a run with max_steps = N ends failed with
\* Provider("max_steps reached") after exactly N provider calls and N*k tool
\* executions, and never ends in success.
C2_MaxSteps ==
    \A k \in 1..MaxCalls :
        AlwaysToolful(k) /\ pc # "idle" =>
            /\ pc # "done"
            /\ ProviderCalls <= cfg.max_steps
            /\ ToolExecutions <= cfg.max_steps * k
            /\ pc = "failed" =>
                /\ result = PiError("Provider", "max_steps reached")
                /\ ProviderCalls = cfg.max_steps
                /\ ToolExecutions = cfg.max_steps * k

C2_Witness ==
    /\ pc = "failed"
    /\ cfg.max_steps = 2
    /\ AlwaysToolful(2)
    /\ Len(execLog) = 4

\* C3 as stated: whenever the last assistant message contains a call to an
\* unregistered tool, the run ends with Tool("unknown tool: <name>").
C3_Original ==
    (UnknownPositions # {} /\ pc \in Terminal) =>
        \E j \in UnknownPositions :
            result = UnknownToolError(Last(respLog).value.tool_calls[j].name)

\* C3 amended: when the last assistant message contains a call to an
\* unregistered tool, the run does not succeed and calls the provider no more;
\* no call at or after the first such call is executed and no Tool message is
\* appended for it; the run fails with Tool("unknown tool: <name>") of the
\* first such call unless an earlier call of the message failed, and then it
\* fails with that call's error.
C3_UnknownTool ==
    UnknownPositions # {} =>
        /\ pc \in {"calls", "exec", "failed"}
        /\ ProviderCalls = Len(respLog)
        /\ i <= FirstUnknown
        /\ executing \subseteq 1..(FirstUnknown - 1)
        /\ Len(transcript) - Len(Last(requests).messages) - 1 < FirstUnknown
        /\ \A n \in (Len(Last(requests).messages) + 2)..Len(transcript) :
              /\ transcript[n].role = "tool"
              /\ transcript[n].tool_call_id =
                    tool_calls[n - Len(Last(requests).messages) - 1].id
        /\ pc = "failed" =>
              IF execLog # <<>> /\ Last(execLog).tag = "err"
              THEN result = Last(execLog) /\ i < FirstUnknown
              ELSE /\ result = UnknownToolError(tool_calls[FirstUnknown].name)
                   /\ i = FirstUnknown
                   /\ Len(transcript) = Len(Last(requests).messages) + FirstUnknown

C3_Witness ==
    /\ pc = "failed"
    /\ Len(tool_calls) = 3
    /\ UnknownPositions = {2}
    /\ result = UnknownToolError("nope")

\* The run failed at the lookup of tool_calls[i].
FailedUnknown ==
    /\ pc = "failed"
    /\ UnknownPositions # {}
    /\ result = UnknownToolError(tool_calls[FirstUnknown].name)

\* C4 as stated: when the run fails on an unknown tool, the last message of
\* the transcript is the offending assistant message, wherever the call is.
C4_Original ==
    FailedUnknown => Last(transcript) = Last(respLog).value

\* C4 amended: when the run fails on an unknown tool, the transcript ends with
\* the offending assistant message followed by the Tool messages of the calls
\* that precede the unknown call; only when the unknown call is the first
\* call is the assistant message the last message.
C4_UnknownToolTail ==
    FailedUnknown =>
        /\ transcript = TurnTranscript(FirstUnknown - 1, TurnOuts(FirstUnknown - 1))
        /\ (Last(transcript) = Last(respLog).value) <=> (FirstUnknown = 1)

C4_Witness ==
    /\ FailedUnknown
    /\ FirstUnknown = 3
    /\ Len(tool_calls) = 3

\* C5: during and after a run the transcript the run started from is a prefix
\* of the transcript, and every step of a run leaves the transcript it finds
\* as a prefix of the one it leaves.
C5_AppendOnly ==
    /\ [](IsPrefix(pre, transcript))
    /\ [][pc' # "idle" => IsPrefix(transcript, transcript')]_vars

C5_Witness ==
    /\ pc \in Terminal
    /\ pre # <<>>
    /\ Len(transcript) > Len(pre) + 2

\* The last provider call returned an error or a non-assistant message.
BadResponse == respLog # <<>> /\ ~IsAssistant(Last(respLog))

\* C6: when provider.chat returns an error or a non-assistant message the run
\* fails (with that error, resp. a Provider error), the transcript is the one
\* the request was built from, and no provider call or tool execution follows.
C6_ProviderFailure ==
    BadResponse =>
        /\ pc = "failed"
        /\ IF Last(respLog).tag = "err"
           THEN result = Last(respLog)
           ELSE result.tag = "err" /\ result.kind = "Provider"
        /\ transcript = Last(requests).messages
        /\ ProviderCalls = Len(respLog)
        /\ executing = {}
        /\ \A n \in 1..Len(execLog) : execLog[n].tag = "ok"
        /\ Len(execLog) = RoleCount(Appended, "tool")

C6_Witness ==
    /\ BadResponse
    /\ Last(respLog) = Ok(system("y"))
    /\ Len(respLog) = 2
    /\ execLog # <<>>

\* The last tool execution returned an error.
ToolFailed == execLog # <<>> /\ Last(execLog).tag = "err"

\* C7: when the execute of the i-th call returns an error the run fails with
\* that error, the transcript ends with the assistant message and the Tool
\* messages of the calls 1..i-1, no later call is executed and the provider
\* is not called again.
C7_ToolFailure ==
    ToolFailed =>
        /\ pc = "failed"
        /\ result = Last(execLog)
        /\ transcript = TurnTranscript(i - 1, SubSeq(TurnOuts(i), 1, i - 1))
        /\ executing = {}
        /\ Len(execLog) = RoleCount(Appended, "tool") + 1
        /\ ProviderCalls = Len(respLog)

C7_Witness ==
    /\ ToolFailed
    /\ i = 2
    /\ Len(tool_calls) = 3
    /\ Len(respLog) = 2

\* C8: a run appends System{system_prompt} iff the transcript it starts from
\* is empty and a system prompt is configured; User{user_input} comes next
\* and both are in the first request; no other System message is appended.
C8_SystemPrompt ==
    pc # "idle" =>
        LET withSys == pre = <<>> /\ cfg.system_prompt.some
            head == IF withSys
                    THEN <<system(cfg.system_prompt.value), user(user_input)>>
                    ELSE <<user(user_input)>>
        IN  /\ IsPrefix(head, Appended)
            /\ \A n \in 1..Len(Appended) :
                  Appended[n].role = "system" => (withSys /\ n = 1)
            /\ requests # <<>> => requests[1].messages = pre \o head

C8_Witness ==
    /\ pre # <<>>
    /\ cfg.system_prompt.some
    /\ pre[1].role # "system"
    /\ requests # <<>>

\* C9: at most one tool execution is in flight; call i is in flight only
\* when the Tool messages of the calls 1..i-1 have been appended; a provider
\* call after a turn is made only when the Tool messages of all calls of that
\* turn have been appended.
C9_Sequential ==
    /\ Cardinality(executing) <= 1
    /\ executing # {} => pc = "exec" /\ executing = {i}
    /\ pc = "exec" =>
          /\ i \in 1..Len(tool_calls)
          /\ transcript = TurnTranscript(i - 1, TurnOuts(i - 1))
    /\ (pc = "chat" /\ Len(requests) > 1) =>
          LET n == Len(requests)
              m == respLog[n - 1].value
              k == Len(m.tool_calls)
          IN  /\ executing = {}
              /\ k > 0
              /\ requests[n].messages = requests[n - 1].messages \o <<m>>
                               \o ToolMsgs(m.tool_calls, TurnOuts(k), k)

C9_Witness ==
    /\ pc = "exec"
    /\ i = 3
    /\ execLog = <<Ok("hi"), Ok("ho")>>
    /\ Len(respLog) = 1

\* C10: a started run reaches Done or Failed, it makes at most max_steps
\* provider calls, and a run that is Done or Failed takes no step: the only
\* steps from there are the caller's reset or its next call of run_to_end.
C10_Terminates ==
    /\ [](ProviderCalls <= cfg.max_steps)
    /\ (pc \in {"loop", "chat", "calls", "exec"}) ~> (pc \in Terminal)
    /\ [][(pc \in Terminal) =>
            \/ pc' = "idle" /\ transcript' = <<>>
            \/ pc' = "loop" /\ pre' = transcript /\ requests' = <<>> /\ execLog' = <<>>]_vars

C10_Witness ==
    /\ pc = "failed"
    /\ ProviderCalls = cfg.max_steps
    /\ cfg.max_steps = 2
    /\ result = PiError("Provider", "max_steps reached")

\* =================================================================
\* Further properties of the agent loop (core/src/lib.rs).

\* The transcript at the provider call of turn n of the current run: what the
\* run started from, the messages pushed before the loop and the turns 1..n-1.
TranscriptAtCall(n) ==
    pre \o Preamble(pre, cfg.system_prompt, user_input)
        \o TurnsOf(SubSeq(respLog, 1, n - 1), execLog)

\* C31: the messages of the n-th ChatRequest of a run are the whole transcript
\* at the moment of that provider call (the pre-existing messages, the
\* System/User messages of this run and the Assistant and Tool messages of the
\* turns 1..n-1), so the messages of request n-1 are a strict prefix of those
\* of request n; the model, the tool specs (in insertion order), temperature
\* and max_tokens are the same in every request of the run.
C31_Requests ==
    /\ [](\A n \in 1..Len(requests) :
            /\ requests[n].messages = TranscriptAtCall(n)
            /\ n > 1 =>
                  /\ IsPrefix(requests[n - 1].messages, requests[n].messages)
                  /\ Len(requests[n - 1].messages) < Len(requests[n].messages)
            /\ requests[n].model = requests[1].model
            /\ requests[n].temperature = requests[1].temperature
            /\ requests[n].max_tokens = requests[1].max_tokens
            /\ requests[n].tools = ToolSetTools)
    /\ [][Len(requests') = Len(requests) + 1 =>
            /\ Last(requests').messages = transcript
            /\ Last(requests').model = cfg.model
            /\ Last(requests').temperature = cfg.temperature
            /\ Last(requests').max_tokens = cfg.max_tokens]_vars

C31_Witness ==
    /\ Len(requests) = 2
    /\ pre # <<>>
    /\ cfg.system_prompt.some
    /\ Len(respLog[1].value.tool_calls) = 2
    /\ Len(requests[2].messages) = Len(pre) + 4
    /\ Len(requests[2].tools) = 2

\* Every Assistant message of tr with k tool calls is followed at once by
\* exactly k Tool messages, answering its calls in order.
Answered_in_order(tr) ==
    \A p \in 1..Len(tr) :
        tr[p].role = "assistant" =>
            LET k == Len(tr[p].tool_calls)
            IN  /\ p + k <= Len(tr)
                /\ \A j \in 1..k :
                      /\ tr[p + j].role = "tool"
                      /\ tr[p + j].tool_call_id = tr[p].tool_calls[j].id
                /\ p + k < Len(tr) => tr[p + k + 1].role # "tool"

\* C34: between the runs of a session, after failed runs too, every Assistant
\* message with k tool calls in the transcript is followed at once by exactly
\* k Tool messages answering its calls in order, so that the User message of
\* the next run never comes before them.
C34_Original ==
    pc \in {"idle"} \cup Terminal => Answered_in_order(transcript)

\* The positions of the System messages of tr.
SystemPositions(tr) == {n \in 1..Len(tr) : tr[n].role = "system"}

\* C35: across runs and resets the transcript holds at most one System
\* message, and only as its first message; during and after a run that
\* started on an empty transcript with a system prompt configured the
\* transcript begins with that System message followed by the User message.
C35_OneSystem ==
    /\ SystemPositions(transcript) \subseteq {1}
    /\ (pc # "idle" /\ pre = <<>> /\ cfg.system_prompt.some) =>
          /\ Len(transcript) >= 2
          /\ transcript[1] = system(cfg.system_prompt.value)
          /\ transcript[2] = user(user_input)

\* A further run on the transcript a run with a system prompt has left.
C35_Witness ==
    /\ pc \in Terminal
    /\ pre # <<>>
    /\ pre[1].role = "system"
    /\ cfg.system_prompt.some
    /\ RoleCount(transcript, "user") = 2
    /\ SystemPositions(transcript) = {1}

\* =================================================================
\* The streaming adapter (adapters/adapter_openai/src/lib.rs).
\* =================================================================

\* ------------------------------------------------------------ more bounds
MaxChunks == 3          \* longest sequence of chunks applied to one assembler

\* ---------------------------------------------------------------- strings
\* A String whose characters matter is the sequence of its pieces; a piece
\* is a run of characters that the code never looks inside.
\* char::is_whitespace holds of the Unicode White_Space characters: "U+00A0"
\* (no-break space) is one of them, "U+200B" (zero width space) is not.
Whitespace == {" ", "\t", "\n", "\r", "U+00A0"}

RECURSIVE TrimStart(_)
TrimStart(s) ==
    IF s # <<>> /\ Head(s) \in Whitespace THEN TrimStart(Tail(s)) ELSE s

RECURSIVE TrimEnd(_)
TrimEnd(s) ==
    IF s # <<>> /\ s[Len(s)] \in Whitespace
    THEN TrimEnd(SubSeq(s, 1, Len(s) - 1)) ELSE s

Trim(s) == TrimEnd(TrimStart(s))

\* Variant: only the empty string is refused.
NonEmptyString_new_lax(s) ==
    IF s = <<>> THEN PiError("Invalid", "empty string") ELSE Ok(s)

\* NonEmptyString::new.
NonEmptyString_new(s) ==
    IF Trim(s) = <<>> THEN PiError("Invalid", "empty string") ELSE Ok(s)

\* serde_json::from_str::<Json> on a text over the alphabet { "{", "}" }:
\* the only JSON text over it is "{}", the empty object.
EmptyObject == [json |-> "object", members |-> {}]
ParseJson(s) == IF s = <<"{", "}">> THEN Some(EmptyObject) ELSE None

\* ------------------------------------------------------- ChatStreamEvent
TextDelta(delta) == [type |-> "TextDelta", delta |-> delta]
ToolCallDelta(id, name, arguments_delta, parsed_arguments) ==
    [type |-> "ToolCallDelta", id |-> id, name |-> name,
     arguments_delta |-> arguments_delta, parsed_arguments |-> parsed_arguments]
Usage(usage) == [type |-> "Usage", usage |-> usage]
Done == [type |-> "Done"]
Error(reason, message) == [type |-> "Error", reason |-> reason, message |-> message]

TokenUsage(u) ==
    [prompt_tokens |-> u.prompt_tokens, completion_tokens |-> u.completion_tokens,
     total_tokens |-> u.total_tokens, cache_read_tokens |-> 0, cache_write_tokens |-> 0]

ChatResponse(assistant_, usage, cost) ==
    [assistant |-> assistant_, usage |-> usage, cost |-> cost]

\* ------------------------------------------------------ OpenAiStreamChunk
OpenAiUsage(p, c) == [prompt_tokens |-> p, completion_tokens |-> c, total_tokens |-> p + c]
OpenAiFunctionCallDelta(name, arguments) == [name |-> name, arguments |-> arguments]
OpenAiToolCallDelta(index, id, kind, function) ==
    [index |-> index, id |-> id, kind |-> kind, function |-> function]
OpenAiStreamChoice(content, tool_calls_) == [content |-> content, tool_calls |-> tool_calls_]
OpenAiStreamChunk(choices, usage) == [choices |-> choices, usage |-> usage]

\* --------------------------------------------------------- StreamAssembler
ToolAcc_default == [id |-> None, name |-> None, args |-> <<>>]
StreamAssembler_default == [content |-> "", tools |-> <<>>, usage |-> None]

\* BTreeMap insert-or-replace.
Put(f, k, v) == [x \in DOMAIN f \cup {k} |-> IF x = k THEN v ELSE f[x]]

\* The keys of a BTreeMap in iteration order.
RECURSIVE Ascending(_)
Ascending(S) ==
    IF S = {} THEN <<>>
    ELSE LET m == CHOOSE x \in S : \A y \in S : x <= y
         IN  <<m>> \o Ascending(S \ {m})

\* Variant: the event carries the arguments accumulated so far.
ApplyToolCall_accumulated(st, tc) ==
    IF st.err # None THEN st
    ELSE IF tc.kind # None /\ tc.kind.value # "function"
    THEN [st EXCEPT !.err = Some(PiError("Provider", "openai: non-function tool call delta"))]
    ELSE
    LET acc0 == IF tc.index \in DOMAIN st.tools THEN st.tools[tc.index] ELSE ToolAcc_default
        acc1 == IF tc.id # None THEN [acc0 EXCEPT !.id = tc.id] ELSE acc0
        func == tc.function
        acc2 == IF func # None /\ func.value.name # None
                THEN [acc1 EXCEPT !.name = func.value.name] ELSE acc1
        hasArgs == func # None /\ func.value.arguments # None
        acc3 == IF hasArgs
                THEN [acc2 EXCEPT !.args = @ \o func.value.arguments.value] ELSE acc2
        tools1 == Put(st.tools, tc.index, acc3)
    IN  IF ~hasArgs \/ acc3.id = None \/ acc3.name = None
        THEN [st EXCEPT !.tools = tools1]
        ELSE LET id == NonEmptyString_new(acc3.id.value)
                 name == NonEmptyString_new(acc3.name.value)
             IN  IF id.tag = "err" THEN [st EXCEPT !.tools = tools1, !.err = Some(id)]
                 ELSE IF name.tag = "err" THEN [st EXCEPT !.tools = tools1, !.err = Some(name)]
                 ELSE [st EXCEPT !.tools = tools1,
                                 !.out = Append(@, ToolCallDelta(id.value, name.value,
                                                     acc3.args,
                                                     ParseJson(acc3.args)))]

\* Variant: a fragment that cannot be emitted yet is not retained either.
ApplyToolCall_forget(st, tc) ==
    IF st.err # None THEN st
    ELSE IF tc.kind # None /\ tc.kind.value # "function"
    THEN [st EXCEPT !.err = Some(PiError("Provider", "openai: non-function tool call delta"))]
    ELSE
    LET acc0 == IF tc.index \in DOMAIN st.tools THEN st.tools[tc.index] ELSE ToolAcc_default
        acc1 == IF tc.id # None THEN [acc0 EXCEPT !.id = tc.id] ELSE acc0
        func == tc.function
        acc2 == IF func # None /\ func.value.name # None
                THEN [acc1 EXCEPT !.name = func.value.name] ELSE acc1
        hasArgs == func # None /\ func.value.arguments # None
        known == acc2.id # None /\ acc2.name # None
        acc3 == IF hasArgs /\ known
                THEN [acc2 EXCEPT !.args = @ \o func.value.arguments.value] ELSE acc2
        tools1 == Put(st.tools, tc.index, acc3)
    IN  IF ~hasArgs \/ ~known THEN [st EXCEPT !.tools = tools1]
        ELSE LET id == NonEmptyString_new(acc3.id.value)
                 name == NonEmptyString_new(acc3.name.value)
             IN  IF id.tag = "err" THEN [st EXCEPT !.tools = tools1, !.err = Some(id)]
                 ELSE IF name.tag = "err" THEN [st EXCEPT !.tools = tools1, !.err = Some(name)]
                 ELSE [st EXCEPT !.tools = tools1,
                                 !.out = Append(@, ToolCallDelta(id.value, name.value,
                                                     func.value.arguments.value,
                                                     ParseJson(acc3.args)))]

\* One iteration of `for tc in tcs` in apply; st is tools, out and the
\* error apply has returned with, if any.
ApplyToolCall(st, tc) ==
    IF st.err # None THEN st
    ELSE IF tc.kind # None /\ tc.kind.value # "function"
    THEN [st EXCEPT !.err = Some(PiError("Provider", "openai: non-function tool call delta"))]
    ELSE
    LET acc0 == IF tc.index \in DOMAIN st.tools THEN st.tools[tc.index] ELSE ToolAcc_default
        acc1 == IF tc.id # None THEN [acc0 EXCEPT !.id = tc.id] ELSE acc0
        func == tc.function
        acc2 == IF func # None /\ func.value.name # None
                THEN [acc1 EXCEPT !.name = func.value.name] ELSE acc1
        hasArgs == func # None /\ func.value.arguments # None
        acc3 == IF hasArgs
                THEN [acc2 EXCEPT !.args = @ \o func.value.arguments.value] ELSE acc2
        tools1 == Put(st.tools, tc.index, acc3)
    IN  IF ~hasArgs \/ acc3.id = None \/ acc3.name = None
        THEN [st EXCEPT !.tools = tools1]
        ELSE LET id == NonEmptyString_new(acc3.id.value)
                 name == NonEmptyString_new(acc3.name.value)
             IN  IF id.tag = "err" THEN [st EXCEPT !.tools = tools1, !.err = Some(id)]
                 ELSE IF name.tag = "err" THEN [st EXCEPT !.tools = tools1, !.err = Some(name)]
                 ELSE [st EXCEPT !.tools = tools1,
                                 !.out = Append(@, ToolCallDelta(id.value, name.value,
                                                     func.value.arguments.value,
                                                     ParseJson(acc3.args)))]

RECURSIVE ApplyToolCalls(_, _)
ApplyToolCalls(st, tcs) ==
    IF tcs = <<>> THEN st ELSE ApplyToolCalls(ApplyToolCall(st, Head(tcs)), Tail(tcs))

\* Variant: a later usage does not replace an earlier one.
ApplyUsage_first(a, chunk) ==
    IF chunk.usage = None THEN [asm |-> a, out |-> <<>>]
    ELSE LET a1 == IF a.usage = None
                   THEN [a EXCEPT !.usage = Some(TokenUsage(chunk.usage.value))] ELSE a
         IN  [asm |-> a1, out |-> <<Usage(TokenUsage(chunk.usage.value))>>]

\* The usage part of apply.
ApplyUsage(a, chunk) ==
    IF chunk.usage = None THEN [asm |-> a, out |-> <<>>]
    ELSE LET a1 == [a EXCEPT !.usage = Some(TokenUsage(chunk.usage.value))]
         IN  [asm |-> a1, out |-> <<Usage(a1.usage.value)>>]

\* Variant: an empty text delta is emitted too.
ApplyContent_empty(a, out, content) ==
    IF content # None
    THEN [asm |-> [a EXCEPT !.content = @ \o content.value],
          out |-> Append(out, TextDelta(content.value))]
    ELSE [asm |-> a, out |-> out]

\* The content part of apply.
ApplyContent(a, out, content) ==
    IF content # None /\ content.value # ""
    THEN [asm |-> [a EXCEPT !.content = @ \o content.value],
          out |-> Append(out, TextDelta(content.value))]
    ELSE [asm |-> a, out |-> out]

\* StreamAssembler::apply: the assembler afterwards, and either the events
\* returned (err = None) or the error returned.
Apply(a, chunk) ==
    LET u == ApplyUsage(a, chunk)
    IN  IF chunk.choices = <<>> THEN [asm |-> u.asm, out |-> u.out, err |-> None]
        ELSE
        LET choice == Head(chunk.choices)
            c == ApplyContent(u.asm, u.out, choice.content)
            t == IF choice.tool_calls = None
                 THEN [tools |-> c.asm.tools, out |-> c.out, err |-> None]
                 ELSE ApplyToolCalls([tools |-> c.asm.tools, out |-> c.out, err |-> None],
                                     choice.tool_calls.value)
        IN  [asm |-> [c.asm EXCEPT !.tools = t.tools],
             out |-> IF t.err = None THEN t.out ELSE <<>>,
             err |-> t.err]

\* The closure of finish: one accumulated call to a ToolCall or an error.
FinishToolCall(acc) ==
    IF acc.id = None THEN PiError("Provider", "openai: tool call missing id")
    ELSE IF acc.name = None THEN PiError("Provider", "openai: tool call missing name")
    ELSE IF ParseJson(acc.args) = None THEN PiError("Provider", "openai: invalid tool args")
    ELSE LET id == NonEmptyString_new(acc.id.value)
             name == NonEmptyString_new(acc.name.value)
         IN  IF id.tag = "err" THEN id
             ELSE IF name.tag = "err" THEN name
             ELSE Ok(ToolCall(id.value, name.value, ParseJson(acc.args).value))

\* Variant: the calls are listed in descending index order.
FinishOrder_desc(tools) ==
    LET asc == Ascending(DOMAIN tools)
    IN  [j \in 1..Len(asc) |-> asc[Len(asc) + 1 - j]]

\* into_values(): the accumulated indices in ascending order.
FinishOrder(tools) == Ascending(DOMAIN tools)

\* StreamAssembler::finish.
Finish(a) ==
    LET order == FinishOrder(a.tools)
        calls == [j \in 1..Len(order) |-> FinishToolCall(a.tools[order[j]])]
        bad == {j \in 1..Len(order) : calls[j].tag = "err"}
    IN  IF bad # {} THEN calls[CHOOSE j \in bad : \A h \in bad : j <= h]
        ELSE Ok(ChatResponse(assistant(a.content, [j \in 1..Len(order) |-> calls[j].value]),
                             a.usage, None))

\* The agent is not running.
AgentIdle ==
    /\ transcript = <<>>
    /\ cfg = [model |-> "", system_prompt |-> None, max_steps |-> 0,
              temperature |-> None, max_tokens |-> None]
    /\ pc = "idle"
    /\ user_input = ""
    /\ step = 0
    /\ tool_calls = <<>>
    /\ i = 0
    /\ result = Pending
    /\ executing = {}
    /\ pre = <<>>
    /\ requests = <<>>
    /\ respLog = <<>>
    /\ execLog = <<>>

\* ------------------------------------------------------------ SSE framing
MaxBufLen == 6          \* longest buffer handed to next_sse_data, in pieces
MaxExtracts == 3        \* calls of next_sse_data on one buffer

LF == "\n"
CR == "\r"
DataPrefix == "data:"

\* str::find: the first position (from 1) where pat occurs in s, 0 if none.
Find(s, pat) ==
    LET hits == {p \in 1..(Len(s) - Len(pat) + 1) : SubSeq(s, p, p + Len(pat) - 1) = pat}
    IN  IF hits = {} THEN 0 ELSE CHOOSE p \in hits : \A q \in hits : p <= q

\* str::lines: the text cut after each LF, the LF dropped.
RECURSIVE Lines(_)
Lines(s) ==
    IF s = <<>> THEN <<>>
    ELSE LET n == Find(s, <<LF>>)
         IN  IF n = 0 THEN <<s>>
             ELSE <<SubSeq(s, 1, n - 1)>> \o Lines(SubSeq(s, n + 1, Len(s)))

\* trim_end_matches('\r').
RECURSIVE TrimEndCR(_)
TrimEndCR(s) ==
    IF s # <<>> /\ s[Len(s)] = CR THEN TrimEndCR(SubSeq(s, 1, Len(s) - 1)) ELSE s

\* Variant: every data line after the first is preceded by a line feed.
PushData_join(data, first, d) ==
    (IF ~first THEN data \o <<LF>> ELSE data) \o TrimStart(d)

\* The body of `if let Some(d) = line.strip_prefix("data:")`.
PushData(data, first, d) ==
    (IF data # <<>> THEN data \o <<LF>> ELSE data) \o TrimStart(d)

\* The loop over head.lines(): the data collected from lines[n..], given
\* the data collected before and whether a data line was seen before.
RECURSIVE CollectData(_, _, _)
CollectData(data, first, lines) ==
    IF lines = <<>> THEN data
    ELSE LET line == TrimEndCR(Head(lines))
         IN  IF line # <<>> /\ Head(line) = DataPrefix
             THEN CollectData(PushData(data, first, Tail(line)), FALSE, Tail(lines))
             ELSE CollectData(data, first, Tail(lines))

\* Variant: a CR LF CR LF is not looked for.
Boundary_lfOnly(b) ==
    LET lf == Find(b, <<LF, LF>>)
    IN  IF lf # 0 THEN [at |-> lf, len |-> 2] ELSE [at |-> 0, len |-> 0]

\* The event boundary next_sse_data picks: where it starts and its length
\* (at = 0: there is none).
Boundary(b) ==
    LET crlf == Find(b, <<CR, LF, CR, LF>>)
        lf == Find(b, <<LF, LF>>)
    IN  IF crlf # 0 /\ lf # 0
        THEN (IF crlf < lf THEN [at |-> crlf, len |-> 4] ELSE [at |-> lf, len |-> 2])
        ELSE IF crlf # 0 THEN [at |-> crlf, len |-> 4]
        ELSE IF lf # 0 THEN [at |-> lf, len |-> 2]
        ELSE [at |-> 0, len |-> 0]

\* next_sse_data: the value returned and the buffer afterwards.
next_sse_data(b) ==
    LET d == Boundary(b)
    IN  IF d.at = 0 THEN [data |-> None, buf |-> b]
        ELSE LET head == SubSeq(b, 1, d.at - 1)
                 data == CollectData(<<>>, TRUE, Lines(head))
             IN  [data |-> IF data # <<>> THEN Some(data) ELSE None,
                  buf |-> SubSeq(b, d.at + d.len, Len(b))]

\* The pieces a received text is made of.
Pieces == {LF, CR, DataPrefix, " ", "1", "2"}

SseInit ==
    /\ AgentIdle
    /\ asm = StreamAssembler_default
    /\ applied = <<>>
    /\ emitted = <<>>
    /\ final = Pending
    /\ spc = "none"
    /\ buf \in SeqsUpTo(Pieces, MaxBufLen)
    /\ extracted = <<>>
    /\ NoChannel
    /\ NoLib

\* One call next_sse_data(&mut buf).
Extract ==
    /\ Len(extracted) < MaxExtracts
    /\ LET r == next_sse_data(buf)
       IN  /\ buf' = r.buf
           /\ extracted' = Append(extracted, [before |-> buf, data |-> r.data])
    /\ UNCHANGED <<libVars, agentVars, asmVars, chanVars>>

SseNext == Extract

SseSpec == SseInit /\ [][SseNext]_vars

\* ------------------------------------------------- chunks of the provider
\* The call at index k is streamed with this id; every call is to "echo".
StreamIdAt(k) == <<<<"call_1">>, <<"call_2">>>>[k + 1]
EchoName == <<"echo">>
BlankId == <<" ">>

\* The shapes a tool-call fragment of index k takes on the wire.
Opening(k) ==
    OpenAiToolCallDelta(k, Some(StreamIdAt(k)), Some("function"),
        Some(OpenAiFunctionCallDelta(Some(EchoName), Some(<<"{">>))))
Whole(k) ==
    OpenAiToolCallDelta(k, Some(StreamIdAt(k)), Some("function"),
        Some(OpenAiFunctionCallDelta(Some(EchoName), Some(<<"{", "}">>))))
ArgsOnly(k, fragment) ==
    OpenAiToolCallDelta(k, None, None,
        Some(OpenAiFunctionCallDelta(None, Some(fragment))))
Header(k) ==
    OpenAiToolCallDelta(k, Some(StreamIdAt(k)), None,
        Some(OpenAiFunctionCallDelta(Some(EchoName), None)))
IdOnly(k, id) == OpenAiToolCallDelta(k, Some(id), None, None)
NonFunction(k) == OpenAiToolCallDelta(k, None, Some("custom"), None)

ToolCallDeltas ==
    {Opening(0), Whole(0), ArgsOnly(0, <<"{">>), ArgsOnly(0, <<"}">>), Header(0),
     IdOnly(0, BlankId), NonFunction(0),
     Whole(1), ArgsOnly(1, <<"{", "}">>), Header(1)}

Usages == {OpenAiUsage(1, 2), OpenAiUsage(4, 5)}

\* What a decoded chunk can be: one tool-call fragment, a text delta (empty
\* or not), a usage report without choices, usage, text and a fragment
\* together, two choices, two fragments in arrival order 1, 0.
Chunks ==
    {OpenAiStreamChunk(<<OpenAiStreamChoice(None, Some(<<d>>))>>, None) : d \in ToolCallDeltas}
    \cup {OpenAiStreamChunk(<<OpenAiStreamChoice(Some(c), None)>>, None) : c \in {"", "Hi"}}
    \cup {OpenAiStreamChunk(<<>>, Some(u)) : u \in Usages}
    \cup {OpenAiStreamChunk(<<OpenAiStreamChoice(Some("!"), Some(<<ArgsOnly(0, <<"}">>)>>))>>,
                            Some(OpenAiUsage(4, 5))),
          OpenAiStreamChunk(<<OpenAiStreamChoice(Some("Hi"), None),
                              OpenAiStreamChoice(Some("zz"), None)>>, None),
          OpenAiStreamChunk(<<OpenAiStreamChoice(None, Some(<<Whole(1), Whole(0)>>))>>, None)}

\* ------------------------------------------- the assembler as a machine
\* StreamAssembler::default().
AsmInit ==
    /\ AgentIdle
    /\ asm = StreamAssembler_default
    /\ applied = <<>>
    /\ emitted = <<>>
    /\ final = Pending
    /\ spc = "open"
    /\ buf = <<>>
    /\ extracted = <<>>
    /\ NoChannel
    /\ NoLib

\* asm.apply(chunk) as chat_stream calls it: the events returned are the
\* ones to send; an error ends the stream.
AsmApply(chunk) ==
    /\ spc = "open"
    /\ Len(applied) < MaxChunks
    /\ LET r == Apply(asm, chunk)
       IN  /\ asm' = r.asm
           /\ IF r.err = None
              THEN /\ applied' = Append(applied, chunk)
                   /\ emitted' = emitted \o r.out
                   /\ UNCHANGED <<final, spc>>
              ELSE /\ final' = r.err.value
                   /\ spc' = "failed"
                   /\ UNCHANGED <<applied, emitted>>
    /\ UNCHANGED <<libVars, agentVars, sseVars, chanVars>>

\* asm.finish() at the end of the stream.
AsmFinish ==
    /\ spc = "open"
    /\ final' = Finish(asm)
    /\ spc' = "finished"
    /\ UNCHANGED <<asm, applied, emitted>>
    /\ UNCHANGED <<libVars, agentVars, sseVars, chanVars>>

AsmNext == (\E chunk \in Chunks : AsmApply(chunk)) \/ AsmFinish

AsmSpec == AsmInit /\ [][AsmNext]_vars

\* ------------------------------------------------- observing a stream
Finished == spc = "finished" /\ final.tag = "ok"

EventsOf(evs, type) == SelectSeq(evs, LAMBDA e : e.type = type)

\* The text deltas of the events, concatenated in emission order.
RECURSIVE TextOf(_)
TextOf(evs) ==
    IF evs = <<>> THEN ""
    ELSE IF Head(evs).type = "TextDelta" THEN Head(evs).delta \o TextOf(Tail(evs))
    ELSE TextOf(Tail(evs))

\* The content the first choice of the chunk carries, if any.
ContentOf(chunk) ==
    IF chunk.choices = <<>> THEN None ELSE Head(chunk.choices).content

CarriesText(chunk) == ContentOf(chunk) # None /\ ContentOf(chunk).value # ""

\* C11: when finish succeeds, the deltas of the TextDelta events emitted,
\* concatenated in emission order, are the content of the final assistant
\* message; an empty text delta is not emitted (there is one TextDelta per
\* applied chunk with non-empty text, none of them empty) and adds nothing
\* to the content.
C11_TextFold ==
    /\ \A n \in 1..Len(emitted) :
          emitted[n].type = "TextDelta" => emitted[n].delta # ""
    /\ Len(EventsOf(emitted, "TextDelta"))
          = Cardinality({n \in 1..Len(applied) : CarriesText(applied[n])})
    /\ spc # "failed" => asm.content = TextOf(emitted)
    /\ Finished => final.value.assistant.content = TextOf(emitted)

C11_Witness ==
    /\ Finished
    /\ final.value.assistant.content = "HiHi"
    /\ \E n \in 1..Len(applied) : ContentOf(applied[n]) = Some("")

\* The tool-call fragments applied so far, in arrival order.
RECURSIVE Fragments(_)
Fragments(chunks) ==
    IF chunks = <<>> THEN <<>>
    ELSE LET c == Head(chunks)
             own == IF c.choices = <<>> \/ Head(c.choices).tool_calls = None THEN <<>>
                    ELSE Head(c.choices).tool_calls.value
         IN  own \o Fragments(Tail(chunks))

HasArgs(tc) == tc.function # None /\ tc.function.value.arguments # None
HasName(tc) == tc.function # None /\ tc.function.value.name # None

\* The p-th fragment arrived when the id and the name of its index were known.
KnownAt(frags, p) ==
    /\ \E q \in 1..p : frags[q].index = frags[p].index /\ frags[q].id # None
    /\ \E q \in 1..p : frags[q].index = frags[p].index /\ HasName(frags[q])

RECURSIVE Concat(_)
Concat(ss) == IF ss = <<>> THEN <<>> ELSE Head(ss) \o Concat(Tail(ss))

\* The argument fragments of index k, all of them or the ones that arrived
\* when the id and the name were known, concatenated in arrival order.
ArgsReceived(frags, k, knownOnly) ==
    LET ps == SelectSeq([p \in 1..Len(frags) |-> p],
                        LAMBDA p : /\ frags[p].index = k
                                   /\ HasArgs(frags[p])
                                   /\ (knownOnly => KnownAt(frags, p)))
    IN  Concat([n \in 1..Len(ps) |-> frags[ps[n]].function.value.arguments.value])

\* The arguments_delta of the ToolCallDelta events carrying this id,
\* concatenated in emission order.  The fragments of index k are streamed
\* under the id StreamIdAt(k), so these are the events of index k.
ArgsEmitted(evs, id) ==
    LET own == SelectSeq(evs, LAMBDA e : e.type = "ToolCallDelta" /\ e.id = id)
    IN  Concat([n \in 1..Len(own) |-> own[n].arguments_delta])

IsSuffix(s, t) == Len(s) <= Len(t) /\ SubSeq(t, Len(t) - Len(s) + 1, Len(t)) = s

\* The j-th tool call of the final message comes from this index.
IndexOfCall(j) == FinishOrder(asm.tools)[j]

\* C12 as stated: for every tool call of the final message the emitted
\* arguments_delta of its index concatenate to the accumulated argument
\* string, which parses to the call's arguments, also when fragments arrived
\* before the id or the name.
C12_Original ==
    Finished =>
        \A j \in 1..Len(final.value.assistant.tool_calls) :
            LET call == final.value.assistant.tool_calls[j]
                said == ArgsEmitted(emitted, call.id)
            IN  /\ said = asm.tools[IndexOfCall(j)].args
                /\ ParseJson(said) = Some(call.arguments)

\* C12 (amended): the emitted arguments_delta of an index concatenate to the
\* index's argument fragments that arrived when its id and name were known;
\* all its fragments, emitted or not, concatenate to the accumulated
\* argument string, of which the emitted text is therefore a suffix, and the
\* accumulated string parses to the final call's arguments.
C12_ToolArgsFold ==
    /\ spc # "failed" =>
          \A k \in DOMAIN asm.tools :
              /\ asm.tools[k].args = ArgsReceived(Fragments(applied), k, FALSE)
              /\ ArgsEmitted(emitted, StreamIdAt(k)) = ArgsReceived(Fragments(applied), k, TRUE)
              /\ IsSuffix(ArgsEmitted(emitted, StreamIdAt(k)), asm.tools[k].args)
    /\ Finished =>
          \A j \in 1..Len(final.value.assistant.tool_calls) :
              LET call == final.value.assistant.tool_calls[j]
              IN  /\ call.id = StreamIdAt(IndexOfCall(j))
                  /\ Some(call.arguments) = ParseJson(asm.tools[IndexOfCall(j)].args)

\* A call finalized although its first fragment came before its id and name.
C12_Witness ==
    /\ Finished
    /\ Len(final.value.assistant.tool_calls) = 1
    /\ ArgsEmitted(emitted, StreamIdAt(0)) = <<"}">>
    /\ asm.tools[0].args = <<"{", "}">>

\* The usage reports of the chunks, as the Usage events they are to produce.
UsagesReported(chunks) ==
    LET with == SelectSeq(chunks, LAMBDA c : c.usage # None)
    IN  [n \in 1..Len(with) |-> Usage(TokenUsage(with[n].usage.value))]

\* The usage of the last Usage event of evs, if there is one.
LastUsage(evs) ==
    LET us == EventsOf(evs, "Usage")
    IN  IF us = <<>> THEN None ELSE Some(us[Len(us)].usage)

Incomplete(acc) == acc.id = None \/ acc.name = None \/ ParseJson(acc.args) = None

\* An id or name that is present but empty after trimming.
BlankField(acc) ==
    \/ acc.id # None /\ Trim(acc.id.value) = <<>>
    \/ acc.name # None /\ Trim(acc.name.value) = <<>>

\* The final message lists one call per accumulated index, in ascending
\* index order, each built from what was accumulated for its index.
CallsAscending ==
    LET order == Ascending(DOMAIN asm.tools)
        calls == final.value.assistant.tool_calls
    IN  /\ final.value.assistant.role = "assistant"
        /\ Len(calls) = Cardinality(DOMAIN asm.tools)
        /\ \A j \in 1..Len(calls) :
              calls[j] = ToolCall(asm.tools[order[j]].id.value,
                                  asm.tools[order[j]].name.value,
                                  ParseJson(asm.tools[order[j]].args).value)

\* C14 as stated: finish fails when some index lacks an id, lacks a name or
\* has arguments that are not JSON, and otherwise returns the message.
C14_Original ==
    spc = "finished" =>
        IF \E k \in DOMAIN asm.tools : Incomplete(asm.tools[k])
        THEN final.tag = "err"
        ELSE final.tag = "ok" /\ CallsAscending

\* C14 (amended): finish fails exactly when some accumulated index lacks an
\* id, lacks a name, has arguments that are not JSON (an index without any
\* argument fragment has the empty string, which is not JSON), or has an id
\* or name that is empty after trimming; otherwise it returns an Assistant
\* message with one tool call per index in ascending index order.
C14_Finish ==
    spc = "finished" =>
        IF \E k \in DOMAIN asm.tools : Incomplete(asm.tools[k]) \/ BlankField(asm.tools[k])
        THEN final.tag = "err"
        ELSE final.tag = "ok" /\ CallsAscending

\* finish failed on a call that has an id, a name and JSON arguments.
C14_Witness ==
    /\ spc = "finished"
    /\ final.tag = "err"
    /\ DOMAIN asm.tools # {}
    /\ \A k \in DOMAIN asm.tools : ~Incomplete(asm.tools[k])

\* Two calls finalized, the one of index 1 having arrived first.
C14_OrderReached ==
    /\ Finished
    /\ Len(final.value.assistant.tool_calls) = 2
    /\ Fragments(applied)[1].index = 1

\* An index without any argument fragment makes finish fail.
C14_NoArgsReached ==
    /\ spc = "finished"
    /\ final = PiError("Provider", "openai: invalid tool args")
    /\ \E k \in DOMAIN asm.tools : asm.tools[k].args = <<>> /\ asm.tools[k].id # None

\* --------------------------------------------------- observing the framing
\* The event delimiters occurring in b, and the one that starts first.
Delimiters(b) ==
    {[at |-> p, len |-> Len(d)] :
        p \in 1..Len(b), d \in {<<LF, LF>>, <<CR, LF, CR, LF>>}}
FirstDelimiter(b) ==
    LET ds == {d \in Delimiters(b) : /\ d.at + d.len - 1 <= Len(b)
                                    /\ SubSeq(b, d.at, d.at + d.len - 1)
                                         \in {<<LF, LF>>, <<CR, LF, CR, LF>>}}
    IN  IF ds = {} THEN [at |-> 0, len |-> 0]
        ELSE CHOOSE d \in ds : \A e \in ds : d.at <= e.at

\* The contents of the data: lines of an event, in order.
DataLines(head) ==
    LET lines == [n \in 1..Len(Lines(head)) |-> TrimEndCR(Lines(head)[n])]
        data == SelectSeq(lines, LAMBDA l : l # <<>> /\ Head(l) = DataPrefix)
    IN  [n \in 1..Len(data) |-> TrimStart(Tail(data[n]))]

\* The strings joined by single line feeds.
RECURSIVE JoinLF(_)
JoinLF(ss) ==
    IF ss = <<>> THEN <<>>
    ELSE IF Len(ss) = 1 THEN ss[1]
    ELSE ss[1] \o <<LF>> \o JoinLF(Tail(ss))

\* The buffer after the n-th call.
BufAfter(n) == IF n < Len(extracted) THEN extracted[n + 1].before ELSE buf

\* C20: a call on a buffer with a delimiter removes the text up to and
\* including the first delimiter and nothing else, and returns the contents
\* of the event's data: lines joined by single line feeds (nothing when that
\* is empty); a call on a buffer without delimiter returns none and leaves
\* the buffer as it is.
C20_Original ==
    \A n \in 1..Len(extracted) :
        LET b == extracted[n].before
            d == FirstDelimiter(b)
            joined == JoinLF(DataLines(SubSeq(b, 1, d.at - 1)))
        IN  IF d.at = 0
            THEN extracted[n].data = None /\ BufAfter(n) = b
            ELSE /\ BufAfter(n) = SubSeq(b, d.at + d.len, Len(b))
                 /\ extracted[n].data = (IF joined = <<>> THEN None ELSE Some(joined))

\* The part of C20 about the buffer: what is removed, and when.
C20_Removal ==
    \A n \in 1..Len(extracted) :
        LET b == extracted[n].before
            d == FirstDelimiter(b)
        IN  IF d.at = 0
            THEN extracted[n].data = None /\ BufAfter(n) = b
            ELSE BufAfter(n) = SubSeq(b, d.at + d.len, Len(b))

\* ------------------------------------------------------ the producer task
MaxReads == 3           \* items the transport yields before the body ends
MaxBodyLen == 11        \* most bytes of a body one read yields, in pieces
ChannelBuffer == 1      \* the buffer of the event channel (128 in chat_stream)

\* futures mpsc: the buffer plus the guaranteed slot of the one sender.
ChannelCapacity == ChannelBuffer + 1

\* Display of a PiError.
Display(e) ==
    (CASE e.kind = "Invalid" -> "invalid: "
       [] e.kind = "Tool" -> "tool: "
       [] e.kind = "Provider" -> "provider: "
       [] e.kind = "Http" -> "http: "
       [] OTHER -> "") \o e.msg

\* to_string() of the errors of the transport, of from_utf8 and of serde_json.
TransportErrors == {"connection reset"}
Utf8Error == "invalid utf-8 sequence"
JsonError == "expected value"

DoneSentinel == "[DONE]"

\* The JSON texts of chunks that occur as payloads, each one piece of text,
\* and the OpenAiStreamChunk each deserializes to.
ChunkTexts ==
    [T |-> OpenAiStreamChunk(<<OpenAiStreamChoice(Some("Hi"), None)>>, None),
     E |-> OpenAiStreamChunk(<<OpenAiStreamChoice(Some(""), None)>>, None),
     U |-> OpenAiStreamChunk(<<OpenAiStreamChoice(Some("!"), Some(<<ArgsOnly(0, <<"}">>)>>))>>,
                             Some(OpenAiUsage(4, 5))),
     W |-> OpenAiStreamChunk(<<OpenAiStreamChoice(None, Some(<<Whole(0)>>))>>, None),
     O |-> OpenAiStreamChunk(<<OpenAiStreamChoice(None, Some(<<Opening(0)>>))>>, None),
     N |-> OpenAiStreamChunk(<<OpenAiStreamChoice(None, Some(<<NonFunction(0)>>))>>, None),
     A |-> OpenAiStreamChunk(<<OpenAiStreamChoice(Some("U+00E9"), None)>>, None)]

\* serde_json::from_str::<OpenAiStreamChunk>(data).
DecodeChunk(data) ==
    IF Len(data) = 1 /\ data[1] \in DOMAIN ChunkTexts
    THEN Ok(ChunkTexts[data[1]])
    ELSE [tag |-> "err", msg |-> JsonError]

\* Variant: the sentinel is not recognised.
IsDoneSentinel_never(data) == FALSE

\* data.trim() == "[DONE]".
IsDoneSentinel(data) == Trim(data) = <<DoneSentinel>>

\* An event with one data line, as it arrives.
Frame(payload) == <<DataPrefix, " ", payload, LF, LF>>

\* The bytes of a body are its pieces of text, each piece a run of one-byte
\* characters, but for two things: a byte that occurs in no UTF-8 text, and
\* the text of chunk A, whose content is a two-byte character: AccentHead is
\* that text up to and including the character's first byte, AccentTail the
\* text from its second byte on.
InvalidByte == "FF"
AccentHead == "A1"
AccentTail == "A2"

\* std::str::from_utf8 on the bytes of one read: the text, or the error for
\* an invalid byte, a character cut off by the end of the bytes, or a
\* continuation byte with no first byte before it.
RECURSIVE from_utf8(_)
from_utf8(bytes) ==
    IF bytes = <<>> THEN Ok(<<>>)
    ELSE IF Head(bytes) \in {InvalidByte, AccentTail}
    THEN [tag |-> "err", msg |-> Utf8Error]
    ELSE IF Head(bytes) = AccentHead
    THEN IF Len(bytes) >= 2 /\ bytes[2] = AccentTail
         THEN LET rest == from_utf8(SubSeq(bytes, 3, Len(bytes)))
              IN  IF rest.tag = "err" THEN rest ELSE Ok(<<"A">> \o rest.value)
         ELSE [tag |-> "err", msg |-> Utf8Error]
    ELSE LET rest == from_utf8(Tail(bytes))
         IN  IF rest.tag = "err" THEN rest ELSE Ok(<<Head(bytes)>> \o rest.value)

\* What bytes.next().await yields: a transport error, bytes that are not
\* UTF-8, or the bytes of one event or of two events.
TransportItems ==
    {[kind |-> "error", error |-> e] : e \in TransportErrors}
    \cup {[kind |-> "bytes", bytes |-> <<InvalidByte>>]}
    \cup {[kind |-> "bytes", bytes |-> Frame(p)] :
            p \in {"T", "E", "U", "W", "O", "N", DoneSentinel, "oops"}}
    \cup {[kind |-> "bytes", bytes |-> Frame(DoneSentinel) \o Frame("T")],
          [kind |-> "bytes", bytes |-> Frame("T") \o Frame("W")]}

\* Variant: a full channel drops the event instead of making the sender wait.
Offer_lossy(q, ev) ==
    [ready |-> TRUE,
     queue |-> IF Len(q) < ChannelCapacity THEN Append(q, ev) ELSE q]

\* tx.send(ev) on a channel whose receiver is alive: whether the send can
\* complete now, and the channel afterwards.
Offer(q, ev) == [ready |-> Len(q) < ChannelCapacity, queue |-> Append(q, ev)]

\* Variant: a send to a receiver that is gone waits like one to a full channel.
CanSend_alive(ev) == rx = "alive" /\ Offer(queue, ev).ready

\* tx.send(ev).await can complete: there is room, or the receiver is gone.
CanSend(ev) == rx = "dropped" \/ Offer(queue, ev).ready

\* The channel after tx.send(ev).await completed.
Sent(ev) == IF rx = "dropped" THEN queue ELSE Offer(queue, ev).queue

\* Variant: the task goes on to the end of the stream after an Error event.
AfterError_finish == "finish"

\* Where the task is after the Error event and res_tx.send: it has returned.
AfterError == "end"

StreamInit ==
    /\ AgentIdle
    /\ asm = StreamAssembler_default
    /\ applied = <<>>
    /\ emitted = <<>>
    /\ final = Pending
    /\ spc = "read"
    /\ buf = <<>>
    /\ extracted = <<>>
    /\ NoChannel
    /\ NoLib

\* bytes.next().await yields an item.
ReadItem(item) ==
    /\ spc = "read"
    /\ reads < MaxReads
    /\ reads' = reads + 1
    /\ IF item.kind = "error"
       THEN /\ pending' = <<Error("Decode", item.error)>>
            /\ outcome' = Some(PiError("Http", item.error))
            /\ spc' = "fail"
            /\ buf' = buf
            /\ transport' = transport
       ELSE /\ transport' = [sent |-> transport.sent \o item.bytes,
                            rest |-> SubSeq(transport.rest, Len(item.bytes) + 1,
                                            Len(transport.rest))]
            /\ \E s \in {from_utf8(item.bytes)} :
                  IF s.tag = "err"
                  THEN /\ pending' = <<Error("Decode", s.msg)>>
                       /\ outcome' = Some(PiError("Provider",
                                              "openai: invalid utf8: " \o s.msg))
                       /\ spc' = "fail"
                       /\ buf' = buf
                  ELSE /\ buf' = buf \o s.value
                       /\ spc' = "extract"
                       /\ UNCHANGED <<pending, outcome>>
    /\ UNCHANGED <<asm, applied, emitted, final, extracted, queue, rx, dropPoint, received>>
    /\ UNCHANGED <<agentVars, libVars>>

\* bytes.next().await yields None: the body has ended.
EndOfBody ==
    /\ spc = "read"
    /\ transport.rest = <<>>
    /\ spc' = "finish"
    /\ UNCHANGED <<asm, applied, emitted, final, buf, extracted, chanVars>>
    /\ UNCHANGED <<agentVars, libVars>>

\* One turn of `while let Some(data) = next_sse_data(&mut buf)`, up to the
\* sending of the chunk's events.
ExtractData ==
    /\ spc = "extract"
    /\ \E r \in {next_sse_data(buf)} :
           /\ buf' = r.buf
           /\ extracted' = Append(extracted, [before |-> buf, data |-> r.data])
           /\ IF r.data = None
              THEN /\ spc' = "read"
                   /\ UNCHANGED <<asm, applied, pending, outcome>>
              ELSE IF IsDoneSentinel(r.data.value)
              THEN /\ spc' = "finish"
                   /\ UNCHANGED <<asm, applied, pending, outcome>>
              ELSE \E chunk \in {DecodeChunk(Trim(r.data.value))} :
                       IF chunk.tag = "err"
                       THEN /\ pending' = <<Error("Decode", chunk.msg)>>
                            /\ outcome' = Some(PiError("Provider",
                                               "openai: invalid chunk json: " \o chunk.msg))
                            /\ spc' = "fail"
                            /\ UNCHANGED <<asm, applied>>
                       ELSE \E a \in {Apply(asm, chunk.value)} :
                                /\ asm' = a.asm
                                /\ IF a.err # None
                                   THEN /\ pending' = <<Error("Decode", Display(a.err.value))>>
                                        /\ outcome' = a.err
                                        /\ spc' = "fail"
                                        /\ applied' = applied
                                   ELSE /\ pending' = a.out
                                        /\ spc' = IF a.out = <<>> THEN "extract" ELSE "send"
                                        /\ applied' = Append(applied, chunk.value)
                                        /\ outcome' = outcome
    /\ UNCHANGED <<emitted, final, reads, queue, rx, dropPoint, received, transport>>
    /\ UNCHANGED <<agentVars, libVars>>

\* tx.send(ev).await in `for ev in events`, and the return if it failed.
SendEvent ==
    /\ spc = "send"
    /\ CanSend(Head(pending))
    /\ emitted' = Append(emitted, Head(pending))
    /\ queue' = Sent(Head(pending))
    /\ IF rx = "dropped"
       THEN /\ final' = PiError("Provider", "stream dropped")
            /\ spc' = "end"
            /\ pending' = <<>>
       ELSE /\ final' = final
            /\ pending' = Tail(pending)
            /\ spc' = IF Tail(pending) = <<>> THEN "extract" ELSE "send"
    /\ UNCHANGED <<asm, applied, buf, extracted, reads, outcome, rx, dropPoint, received, transport>>
    /\ UNCHANGED <<agentVars, libVars>>

\* let _ = tx.send(Error{..}).await; let _ = res_tx.send(Err(..)); return.
SendError ==
    /\ spc = "fail"
    /\ CanSend(Head(pending))
    /\ emitted' = Append(emitted, Head(pending))
    /\ queue' = Sent(Head(pending))
    /\ pending' = <<>>
    /\ final' = outcome.value
    /\ spc' = AfterError
    /\ UNCHANGED <<asm, applied, buf, extracted, reads, outcome, rx, dropPoint, received, transport>>
    /\ UNCHANGED <<agentVars, libVars>>

\* let _ = tx.send(Done).await; let _ = res_tx.send(asm.finish()).
SendDone ==
    /\ spc = "finish"
    /\ CanSend(Done)
    /\ emitted' = Append(emitted, Done)
    /\ queue' = Sent(Done)
    /\ final' = Finish(asm)
    /\ spc' = "end"
    /\ UNCHANGED <<asm, applied, buf, extracted, reads, pending, outcome, rx, dropPoint, received, transport>>
    /\ UNCHANGED <<agentVars, libVars>>

\* The consumer polls the ChatStream and gets the next event.
Receive ==
    /\ rx = "alive"
    /\ queue # <<>>
    /\ received' = Append(received, Head(queue))
    /\ queue' = Tail(queue)
    /\ UNCHANGED <<asm, applied, emitted, final, spc, buf, extracted,
                   reads, pending, outcome, rx, dropPoint, transport>>
    /\ UNCHANGED <<agentVars, libVars>>

\* The consumer drops the ChatStream, and with it the receiver and the
\* events still in the channel.
DropReceiver ==
    /\ rx = "alive"
    /\ rx' = "dropped"
    /\ dropPoint' = spc
    /\ queue' = <<>>
    /\ UNCHANGED <<asm, applied, emitted, final, spc, buf, extracted,
                   reads, pending, outcome, received, transport>>
    /\ UNCHANGED <<agentVars, libVars>>

StreamNext ==
    \/ \E item \in TransportItems : ReadItem(item)
    \/ EndOfBody
    \/ ExtractData
    \/ SendEvent
    \/ SendError
    \/ SendDone
    \/ Receive
    \/ DropReceiver

StreamSpec == StreamInit /\ [][StreamNext]_vars

\* One item of each kind for the runs whose progress is checked: the two
\* failures of a read, a chunk with one event, one with two, one that apply
\* rejects, a payload that is no chunk, and the sentinel.
ProgressItems ==
    {[kind |-> "error", error |-> e] : e \in TransportErrors}
    \cup {[kind |-> "bytes", bytes |-> <<InvalidByte>>]}
    \cup {[kind |-> "bytes", bytes |-> Frame(p)] : p \in {"T", "U", "N", "oops", DoneSentinel}}

\* The steps of the spawned task.
ProducerStep ==
    \/ \E item \in ProgressItems : ReadItem(item)
    \/ EndOfBody
    \/ ExtractData
    \/ SendEvent
    \/ SendError
    \/ SendDone

ProgressNext ==
    \/ ProducerStep
    \/ Receive
    \/ DropReceiver

\* The transport yields its items and then ends or fails, the runtime
\* schedules the spawned task whenever it can go on, and the consumer polls
\* the events as long as it holds the stream.
StreamFairSpec ==
    StreamInit /\ [][ProgressNext]_vars /\ WF_vars(ProducerStep) /\ WF_vars(Receive)

\* The consumer awaits result() and holds the ChatStream without polling it:
\* only the spawned task takes steps.
AwaitNext ==
    \/ \E item \in TransportItems : ReadItem(item)
    \/ EndOfBody
    \/ ExtractData
    \/ SendEvent
    \/ SendError
    \/ SendDone

AwaitSpec == StreamInit /\ [][AwaitNext]_vars /\ WF_vars(AwaitNext)

\* ------------------------------------------- a body cut into reads
\* A comment line as servers send it to keep the connection alive: an event
\* without a data line.
KeepAlive == <<":", LF, LF>>

\* The bodies whose cutting into reads is left open: two events with data,
\* the first with a two-byte character in its payload; a keep-alive followed
\* by an event with data; an event in CR LF framing followed by one in LF
\* framing.
Bodies ==
    {<<DataPrefix, " ", AccentHead, AccentTail, LF, LF>> \o Frame("T"),
     KeepAlive \o Frame("T"),
     <<DataPrefix, "U", CR, LF, CR, LF>> \o Frame("W")}

BodyInit ==
    /\ AgentIdle
    /\ asm = StreamAssembler_default
    /\ applied = <<>>
    /\ emitted = <<>>
    /\ final = Pending
    /\ spc = "read"
    /\ buf = <<>>
    /\ extracted = <<>>
    /\ reads = 0
    /\ pending = <<>>
    /\ outcome = None
    /\ queue = <<>>
    /\ rx = "alive"
    /\ dropPoint = ""
    /\ received = <<>>
    /\ transport \in {[sent |-> <<>>, rest |-> b] : b \in Bodies}
    /\ NoLib

\* bytes.next().await yields the next n bytes of the body.
BodyRead(n) ==
    /\ n <= Len(transport.rest)
    /\ ReadItem([kind |-> "bytes", bytes |-> SubSeq(transport.rest, 1, n)])

BodyNext ==
    \/ \E n \in 1..MaxBodyLen : BodyRead(n)
    \/ EndOfBody
    \/ ExtractData
    \/ SendEvent
    \/ SendError
    \/ SendDone
    \/ Receive
    \/ DropReceiver

BodySpec == BodyInit /\ [][BodyNext]_vars

\* ------------------------------------------------ observing the producer
Positions(evs, type) == {n \in 1..Len(evs) : evs[n].type = type}

\* C15: Done is emitted at most once and is the last event emitted (no
\* TextDelta, ToolCallDelta, Usage or Error follows it), and a stream on
\* which an Error event was emitted never emits Done.
C15_DoneLast ==
    /\ \A n \in Positions(emitted, "Done") : n = Len(emitted)
    /\ Cardinality(Positions(emitted, "Done")) <= 1
    /\ Positions(emitted, "Error") # {} => Positions(emitted, "Done") = {}
    /\ spc = "end" => pending = <<>>

\* Done was emitted after a Usage and a TextDelta event.
C15_Witness ==
    /\ spc = "end"
    /\ Len(emitted) >= 3
    /\ emitted[Len(emitted)] = Done
    /\ Positions(emitted, "Usage") # {}
    /\ Positions(emitted, "TextDelta") # {}

\* An error has surfaced mid-stream: in the transport, in from_utf8, in the
\* decoding of a chunk or in asm.apply.
Surfaced == outcome # None

\* The failure carries the message of the Error event, as its payload or as
\* its Display.
SameMessage(e, ev) == ev.message = e.msg \/ ev.message = Display(e)

\* C16 as stated: once the promise is resolved after an error surfaced
\* mid-stream, exactly one Error event has been emitted, and the promise
\* holds a failure carrying the same message as that event.
C16_Original ==
    (Surfaced /\ final # Pending) =>
        /\ Cardinality(Positions(emitted, "Error")) = 1
        /\ emitted[Len(emitted)].type = "Error"
        /\ final.tag = "err"
        /\ SameMessage(final, emitted[Len(emitted)])

\* The rest of C16: the promise is resolved only once the Error event was
\* handed to the channel, with a failure, and after the error surfaced no
\* item is read, no payload extracted and no chunk applied.
C16_ErrorThenFailure ==
    /\ [](Surfaced /\ final # Pending =>
            /\ Cardinality(Positions(emitted, "Error")) = 1
            /\ emitted[Len(emitted)].type = "Error"
            /\ final = outcome.value)
    /\ [][Surfaced => UNCHANGED <<reads, extracted, applied, asm, buf>>]_vars

\* The receiver was dropped before the producer had resolved the result.
DroppedEarly == rx = "dropped" /\ dropPoint # "end"

\* C17 as stated, for streams on which no error surfaced: when the receiver
\* is dropped before the stream has ended, at whatever point (also after the
\* last data event and before Done), the result the producer resolves is
\* Provider("stream dropped").
C17_Original ==
    (DroppedEarly /\ ~Surfaced /\ final # Pending) =>
        final = PiError("Provider", "stream dropped")

\* The abort half of C17 as stated: nothing is read or applied once the
\* receiver is gone.
C17_OriginalAbort ==
    [][DroppedEarly => UNCHANGED <<reads, applied>>]_vars

\* What does hold: a data event sent after the drop ends the task with
\* Provider("stream dropped"), at once.
C17_DropDetectedOnSend ==
    [][(rx = "dropped" /\ spc = "send") =>
          (spc' = "end" /\ final' = PiError("Provider", "stream dropped"))]_vars

\* The events the chunks produce when applied in order from assembler a.
RECURSIVE Replay(_, _)
Replay(a, chunks) ==
    IF chunks = <<>> THEN <<>>
    ELSE Apply(a, Head(chunks)).out \o Replay(Apply(a, Head(chunks)).asm, Tail(chunks))

DataEvents(evs) == SelectSeq(evs, LAMBDA e : e.type \notin {"Done", "Error"})

\* The producer is inside a tx.send(..).await.
Sending == spc \in {"send", "fail", "finish"}

\* C18: what the consumer has received is always a prefix of what the
\* producer emitted; while the receiver lives the emitted events are exactly
\* the received ones followed by the ones in the channel (nothing lost,
\* duplicated or reordered); the data events are the events of the
\* provider's chunks in chunk order; the channel never holds more than its
\* capacity; and a producer facing a full channel emits nothing and stays
\* where it is, with its events, until there is room.
C18_Channel ==
    /\ [](/\ IsPrefix(received, emitted)
          /\ rx = "alive" => emitted = received \o queue
          /\ Len(queue) <= ChannelCapacity
          /\ IsPrefix(DataEvents(emitted), Replay(StreamAssembler_default, applied))
          /\ (rx = "alive" /\ ~Surfaced) =>
                DataEvents(emitted) \o pending = Replay(StreamAssembler_default, applied))
    /\ [][(rx = "alive" /\ Len(queue) = ChannelCapacity) =>
             /\ emitted' = emitted
             /\ Sending => (spc' = spc /\ pending' = pending)]_vars

\* The channel is full, the producer waits with an event in hand, and the
\* consumer has already received events.
C18_Witness ==
    /\ rx = "alive"
    /\ Len(queue) = ChannelCapacity
    /\ spc = "send"
    /\ pending # <<>>
    /\ received # <<>>

\* The n-th call of next_sse_data returned the payload [DONE].
DoneExtracted(n) ==
    extracted[n].data # None /\ Trim(extracted[n].data.value) = <<DoneSentinel>>

DoneSeen == \E n \in 1..Len(extracted) : DoneExtracted(n)

\* The chunks that the payloads returned by the calls before the n-th decode to.
ChunksBefore(n) ==
    LET ps == SelectSeq(SubSeq(extracted, 1, n - 1), LAMBDA x : x.data # None)
    IN  [m \in 1..Len(ps) |-> DecodeChunk(Trim(ps[m].data.value)).value]

\* The assembler after the chunks were applied in order to assembler a.
RECURSIVE Fold(_, _)
Fold(a, chunks) ==
    IF chunks = <<>> THEN a ELSE Fold(Apply(a, Head(chunks)).asm, Tail(chunks))

\* C19: once [DONE] has been extracted nothing more is extracted, read or
\* applied: the chunks applied are exactly the payloads extracted before
\* [DONE] ([DONE] itself is not among them), the task goes on to emit Done,
\* exactly once, and resolves the result with finish() of the assembler
\* folded from those payloads.
C19_DoneSentinel ==
    /\ [](\A n \in 1..Len(extracted) :
            DoneExtracted(n) =>
                /\ n = Len(extracted)
                /\ applied = ChunksBefore(n)
                /\ spc \in {"finish", "end"}
                /\ spc = "end" =>
                      /\ Cardinality(Positions(emitted, "Done")) = 1
                      /\ final = Finish(Fold(StreamAssembler_default, ChunksBefore(n))))
    /\ [][DoneSeen => UNCHANGED <<reads, extracted, applied, asm, buf>>]_vars

\* [DONE] arrived after a chunk and with another payload behind it in the
\* same read; the stream has been finalized.
C19_Witness ==
    /\ DoneSeen
    /\ spc = "end"
    /\ applied # <<>>
    /\ buf = Frame("T")
    /\ final.tag = "ok"

\* =================================================================
\* Constructors and pure functions of the contracts and the core
\* (contracts/src/lib.rs, core/src/lib.rs).
\* =================================================================

MaxTools == 3           \* most tools handed to ToolSet::new
MaxStrLen == 3          \* longest string handed to NonEmptyString::new

\* ------------------------------------------------------------ TokenCost
\* An amount of money is an exact fraction of a dollar, num / den; the
\* rounding of the f64 operations is not modelled.
PerM == 1000000

Fraction(num, den) == [num |-> num, den |-> den]
Times(q, k) == Fraction(q.num * k, q.den)
\* Sum of fractions over one denominator.
Plus(a, b) == Fraction(a.num + b.num, a.den)

TokenCost(input, output, cache_read, cache_write) ==
    [input |-> input, output |-> output,
     cache_read |-> cache_read, cache_write |-> cache_write]
TokenCost_free == TokenCost(0, 0, 0, 0)

CostBreakdown(input, output, cache_read, cache_write, total, currency) ==
    [input |-> input, output |-> output, cache_read |-> cache_read,
     cache_write |-> cache_write, total |-> total, currency |-> currency]

\* Variant: the input bucket is priced on total_tokens.
estimate_usd_total(self, usage) ==
    LET input == Times(Fraction(usage.total_tokens, PerM), self.input)
        output == Times(Fraction(usage.completion_tokens, PerM), self.output)
        cache_read == Times(Fraction(usage.cache_read_tokens, PerM), self.cache_read)
        cache_write == Times(Fraction(usage.cache_write_tokens, PerM), self.cache_write)
    IN  CostBreakdown(input, output, cache_read, cache_write,
                      Plus(Plus(Plus(input, output), cache_read), cache_write), "USD")

\* TokenCost::estimate_usd.
estimate_usd(self, usage) ==
    LET input == Times(Fraction(usage.prompt_tokens, PerM), self.input)
        output == Times(Fraction(usage.completion_tokens, PerM), self.output)
        cache_read == Times(Fraction(usage.cache_read_tokens, PerM), self.cache_read)
        cache_write == Times(Fraction(usage.cache_write_tokens, PerM), self.cache_write)
    IN  CostBreakdown(input, output, cache_read, cache_write,
                      Plus(Plus(Plus(input, output), cache_read), cache_write), "USD")

\* ------------------------------------------------------------------ inputs
TokenCosts == {TokenCost_free, TokenCost(1, 1, 0, 0), TokenCost(2, 10, 1, 5)}
TokenUsages ==
    [prompt_tokens : {0, 2, 500000}, completion_tokens : {0, 100000},
     total_tokens : {0, 2, 600000}, cache_read_tokens : {0, 200000},
     cache_write_tokens : {0, 50000}]
ToolNames == {"read", "write"}
Chars == {"a", " ", "\n", "U+00A0", "U+200B"}

\* ------------------------------------------------------------------ calls
A_estimate_usd(self, usage) == [fn |-> "estimate_usd", self |-> self, usage |-> usage]
A_NonEmptyString_new(s) == [fn |-> "NonEmptyString::new", s |-> s]
A_ToolSet_new(tools) == [fn |-> "ToolSet::new", tools |-> tools]

\* The call is chosen; nothing has been returned.
LibInit ==
    /\ AgentIdle
    /\ NoStream
    /\ models = <<>>
    /\ providers = {}
    /\ invoked = <<>>
    /\ \/ \E self \in TokenCosts, usage \in TokenUsages : op = A_estimate_usd(self, usage)
       \/ \E s \in SeqsUpTo(Chars, MaxStrLen) : op = A_NonEmptyString_new(s)
       \/ \E tools \in SeqsUpTo(ToolNames, MaxTools) : op = A_ToolSet_new(tools)
    /\ ret = Pending
    /\ upstream = None
    /\ consumed = <<>>
    /\ files = <<>>
    /\ saving = None
    /\ stored = <<>>

Call_estimate_usd ==
    /\ op.fn = "estimate_usd"
    /\ ret = Pending
    /\ ret' = estimate_usd(op.self, op.usage)
    /\ UNCHANGED <<models, providers, invoked, op, upstream, consumed, files, saving, stored>>
    /\ UNCHANGED nonLibVars

Call_NonEmptyString_new ==
    /\ op.fn = "NonEmptyString::new"
    /\ ret = Pending
    /\ ret' = NonEmptyString_new(op.s)
    /\ UNCHANGED <<models, providers, invoked, op, upstream, consumed, files, saving, stored>>
    /\ UNCHANGED nonLibVars

Call_ToolSet_new ==
    /\ op.fn = "ToolSet::new"
    /\ ret = Pending
    /\ ret' = ToolSet_new(op.tools)
    /\ UNCHANGED <<models, providers, invoked, op, upstream, consumed, files, saving, stored>>
    /\ UNCHANGED nonLibVars

LibNext ==
    \/ Call_estimate_usd
    \/ Call_NonEmptyString_new
    \/ Call_ToolSet_new

LibSpec == LibInit /\ [][LibNext]_vars

\* --------------------------------------------------------- observations
\* The call of fn has returned.
Returned(fn) == op # None /\ op.fn = fn /\ ret # Pending

\* r is a failure of the given kind.
Failed(r, kind) == "tag" \in DOMAIN r /\ r.tag = "err" /\ r.kind = kind

\* C30: estimate_usd prices the prompt, completion, cache-read and
\* cache-write tokens each at its own rate per million tokens, the total is
\* the sum of the four buckets in USD, total_tokens does not enter, and the
\* rates 2/10/1/5 with 500k/100k/200k/50k tokens give 2.45 dollars.
C30_Additive ==
    Returned("estimate_usd") =>
        LET c == op.self
            u == op.usage
        IN  /\ ret.input = Fraction(u.prompt_tokens * c.input, 1000000)
            /\ ret.output = Fraction(u.completion_tokens * c.output, 1000000)
            /\ ret.cache_read = Fraction(u.cache_read_tokens * c.cache_read, 1000000)
            /\ ret.cache_write = Fraction(u.cache_write_tokens * c.cache_write, 1000000)
            /\ ret.total = Fraction(ret.input.num + ret.output.num
                                    + ret.cache_read.num + ret.cache_write.num, 1000000)
            /\ ret.currency = "USD"
            /\ \A n \in {0, 2, 600000} :
                   estimate_usd(c, [u EXCEPT !.total_tokens = n]) = ret
            /\ (c = TokenCost(2, 10, 1, 5) /\ u.prompt_tokens = 500000
                /\ u.completion_tokens = 100000 /\ u.cache_read_tokens = 200000
                /\ u.cache_write_tokens = 50000)
               => ret.total = Fraction(2450000, 1000000)

C30_Witness ==
    /\ Returned("estimate_usd")
    /\ op.self = TokenCost(2, 10, 1, 5)
    /\ op.usage = [prompt_tokens |-> 500000, completion_tokens |-> 100000,
                   total_tokens |-> 600000, cache_read_tokens |-> 200000,
                   cache_write_tokens |-> 50000]
    /\ ret.total = Fraction(2450000, 1000000)

\* C29: NonEmptyString::new fails with Invalid exactly for the strings
\* with no non-whitespace character, and for every other string it succeeds
\* with the string as given, untrimmed; so what is left of a value it built,
\* once trimmed, is never empty.
C29_NonEmpty ==
    Returned("NonEmptyString::new") =>
        LET s == op.s
            blank == \A k \in 1..Len(s) : s[k] \in {" ", "\t", "\n", "\r", "U+00A0"}
        IN  /\ blank <=> Failed(ret, "Invalid")
            /\ ~blank => ret = Ok(s)
            /\ ret.tag = "ok" => Len(Trim(ret.value)) > 0

C29_Witness ==
    /\ Returned("NonEmptyString::new")
    /\ op.s = <<" ", "a", "\n">>
    /\ ret = Ok(<<" ", "a", "\n">>)

\* C25: ToolSet::new fails with Invalid on a collection in which two tools
\* have the same spec name, so that no ToolSet holds two tools of one name.
C25_Original ==
    Returned("ToolSet::new") =>
        LET tools == op.tools
            duplicate == \E j, k \in 1..Len(tools) : j # k /\ tools[j] = tools[k]
        IN  /\ duplicate => Failed(ret, "Invalid")
            /\ "tools" \in DOMAIN ret =>
                   \A j, k \in 1..Len(ret.tools) :
                       j # k => ToolSet_specs(ret)[j] # ToolSet_specs(ret)[k]

\* =================================================================
\* The AiClient with its ModelCatalog and ProviderHub (core/src/lib.rs).
\* =================================================================

MaxNew == 1             \* most models handed to ModelCatalog::new
MaxModels == 2          \* most models in the catalog
MaxResults == 2         \* most calls of result() on one stream

\* ------------------------------------------------------------------ Model
\* Of a Model the client reads the provider, the id and the cost.
Model(provider, id, cost) == [provider |-> provider, id |-> id, cost |-> cost]

TokenUsage_new(prompt_tokens, completion_tokens, total_tokens) ==
    [prompt_tokens |-> prompt_tokens, completion_tokens |-> completion_tokens,
     total_tokens |-> total_tokens, cache_read_tokens |-> 0, cache_write_tokens |-> 0]

ChatRequest(model, messages) == [model |-> model, messages |-> messages]

\* ----------------------------------------------------------- ModelCatalog
ModelCatalog_new(ms) == ms

ModelCatalog_extend(self, ms) == self \o ms

\* Variant: the last match.
ModelCatalog_find_last(self, provider, id) ==
    LET hits == {j \in 1..Len(self) : self[j].provider = provider /\ self[j].id = id}
    IN  IF hits = {} THEN None
        ELSE Some(self[CHOOSE j \in hits : \A h \in hits : j >= h])

\* ModelCatalog::find: the first model whose provider and id both match.
ModelCatalog_find(self, provider, id) ==
    LET hits == {j \in 1..Len(self) : self[j].provider = provider /\ self[j].id = id}
    IN  IF hits = {} THEN None
        ELSE Some(self[CHOOSE j \in hits : \A h \in hits : j <= h])

\* ModelCatalog::get.
ModelCatalog_get(self, provider, id) ==
    LET found == ModelCatalog_find(self, provider, id)
    IN  IF found.some THEN Ok(found.value)
        ELSE PiError("Invalid", "unknown model " \o provider \o ":" \o id)

\* ------------------------------------------------------------ ProviderHub
\* The HashMap is the set of its (key, value) pairs, one pair per key.
ProviderHub_new == {}

ProviderHub_insert(self, provider, client) ==
    {e \in self : e[1] # provider} \cup {<<provider, client>>}

ProviderHub_get(self, provider) ==
    IF \E e \in self : e[1] = provider
    THEN Some((CHOOSE e \in self : e[1] = provider)[2])
    ELSE None

\* ------------------------------------------------------------- ChatStream
\* The events are those the receiver will yield; the result future is what
\* it resolves to.
ChatStream_new(events, result_) == [events |-> events, result |-> Some(result_)]

\* Result::map; the closure f is the function from its argument to its value.
Result_map(r, f) == IF r.tag = "ok" THEN Ok(f[r.value]) ELSE r

\* ChatStream::map_result.
ChatStream_map_result(self, f) ==
    IF self.result.some
    THEN [self EXCEPT !.result = Some(Result_map(self.result.value, f))]
    ELSE self

\* --------------------------------------------------------------- AiClient
\* Variant: an unregistered provider id falls back to a registered provider.
AiClient_provider_any(self, provider) ==
    LET found == ProviderHub_get(self, provider)
    IN  IF found.some THEN Ok(found.value)
        ELSE IF self # {} THEN Ok((CHOOSE e \in self : TRUE)[2])
        ELSE PiError("Invalid", "no provider registered: " \o provider)

\* AiClient::provider.
AiClient_provider(self, provider) ==
    LET found == ProviderHub_get(self, provider)
    IN  IF found.some THEN Ok(found.value)
        ELSE PiError("Invalid", "no provider registered: " \o provider)

\* Variant: the estimate replaces whatever cost the provider reported.
InjectCost_always(cost, resp) ==
    IF resp.usage.some
    THEN [resp EXCEPT !.cost = Some(estimate_usd(cost, resp.usage.value))]
    ELSE resp

\* The cost enrichment of complete and of the closure given to map_result.
InjectCost(cost, resp) ==
    IF ~resp.cost.some /\ resp.usage.some
    THEN [resp EXCEPT !.cost = Some(estimate_usd(cost, resp.usage.value))]
    ELSE resp

\* ------------------------------------------------------------------ inputs
ProviderIds == {"openai", "stub"}
Clients == {"A", "B"}
Models ==
    {Model("openai", "m", TokenCost_free), Model("openai", "m", TokenCost(1, 1, 0, 0)),
     Model("openai", "n", TokenCost_free), Model("stub", "m", TokenCost(1, 1, 0, 0))}
QueryProviders == {"openai", "stub", "nope"}
QueryIds == {"m", "n", "x"}
Hi == assistant("hi", <<>>)
StubUsage == TokenUsage_new(1000000, 1000000, 2000000)
ReportedCost == estimate_usd(TokenCost(2, 10, 1, 5), StubUsage)
ChatResponses ==
    {ChatResponse(Hi, usage, cost) :
        usage \in {None, Some(StubUsage)}, cost \in {None, Some(ReportedCost)}}
ChatOutcomes == {Ok(r) : r \in ChatResponses} \cup {PiError("Provider", "boom")}
EventSeqs == {<<>>, <<TextDelta("h"), TextDelta("i"), Done>>}
\* What chat_stream returns: a stream whose result is still to be taken,
\* one whose result was taken before, or an error.
ChatStreams ==
    {ChatStream_new(events, r) : events \in EventSeqs, r \in ChatOutcomes}
    \cup {[events |-> <<>>, result |-> None]}
StreamOutcomes == {Ok(s) : s \in ChatStreams} \cup {PiError("Provider", "boom")}
Messages == <<user("yo")>>

\* ------------------------------------------------------------------ calls
A_AiClient_new == [fn |-> "AiClient::new"]
A_model(provider, id) == [fn |-> "model", provider |-> provider, id |-> id]
A_complete(model) == [fn |-> "complete", model |-> model]
A_stream(model) == [fn |-> "stream", model |-> model]
Invocation(provider, client, method, req) ==
    [provider |-> provider, client |-> client, method |-> method, req |-> req]
\* What the consumer has got from the stream.
Nothing == [events |-> <<>>, results |-> <<>>]

\* The catalog and the hub are being built.
ClientInit ==
    /\ AgentIdle
    /\ NoStream
    /\ models = ModelCatalog_new(<<>>)
    /\ providers = ProviderHub_new
    /\ invoked = <<>>
    /\ op = None
    /\ ret = Pending
    /\ upstream = None
    /\ consumed = Nothing
    /\ files = <<>>
    /\ saving = None
    /\ stored = <<>>

\* ModelCatalog::new(ms) replaces the catalog being built.
Catalog_new(ms) ==
    /\ op = None
    /\ models' = ModelCatalog_new(ms)
    /\ UNCHANGED <<providers, invoked, op, ret, upstream, consumed, files, saving, stored>>
    /\ UNCHANGED nonLibVars

\* models.extend(ms).
Catalog_extend(ms) ==
    /\ op = None
    /\ Len(models) + Len(ms) <= MaxModels
    /\ models' = ModelCatalog_extend(models, ms)
    /\ UNCHANGED <<providers, invoked, op, ret, upstream, consumed, files, saving, stored>>
    /\ UNCHANGED nonLibVars

\* providers.insert(provider, client).
Hub_insert(provider, client) ==
    /\ op = None
    /\ providers' = ProviderHub_insert(providers, provider, client)
    /\ UNCHANGED <<models, invoked, op, ret, upstream, consumed, files, saving, stored>>
    /\ UNCHANGED nonLibVars

\* AiClient::new(models, providers): from here on both are fixed. The
\* client keeps nothing else, so its calls do not depend on one another and
\* each is made on the client as built.
AiClient_new ==
    /\ op = None
    /\ op' = A_AiClient_new
    /\ UNCHANGED <<models, providers, invoked, ret, upstream, consumed, files, saving, stored>>
    /\ UNCHANGED nonLibVars

\* ai.model(provider, id).
AiClient_model(provider, id) ==
    /\ op = A_AiClient_new
    /\ op' = A_model(provider, id)
    /\ ret' = ModelCatalog_get(models, provider, id)
    /\ invoked' = <<>>
    /\ upstream' = None
    /\ consumed' = Nothing
    /\ UNCHANGED <<models, providers, files, saving, stored>>
    /\ UNCHANGED nonLibVars

\* ai.complete(model, ctx, ..); `answer` is what p.chat returns if called.
AiClient_complete(model, answer) ==
    /\ op = A_AiClient_new
    /\ op' = A_complete(model)
    /\ consumed' = Nothing
    /\ LET p == AiClient_provider(providers, model.provider)
       IN  IF p.tag = "err"
           THEN /\ ret' = p
                /\ invoked' = <<>>
                /\ upstream' = None
           ELSE /\ invoked' = <<Invocation(model.provider, p.value, "chat",
                                           ChatRequest(model.id, Messages))>>
                /\ upstream' = Some(answer)
                /\ ret' = IF answer.tag = "err" THEN answer
                          ELSE Ok(InjectCost(model.cost, answer.value))
    /\ UNCHANGED <<models, providers, files, saving, stored>>
    /\ UNCHANGED nonLibVars

\* ai.stream(model, ctx, ..); `answer` is what p.chat_stream returns if called.
AiClient_stream(model, answer) ==
    /\ op = A_AiClient_new
    /\ op' = A_stream(model)
    /\ consumed' = Nothing
    /\ LET p == AiClient_provider(providers, model.provider)
           cost == model.cost
           f == [resp \in ChatResponses |-> InjectCost(cost, resp)]
       IN  IF p.tag = "err"
           THEN /\ ret' = p
                /\ invoked' = <<>>
                /\ upstream' = None
           ELSE /\ invoked' = <<Invocation(model.provider, p.value, "chat_stream",
                                           ChatRequest(model.id, Messages))>>
                /\ upstream' = Some(answer)
                /\ ret' = IF answer.tag = "err" THEN answer
                          ELSE Ok(ChatStream_map_result(answer.value, f))
    /\ UNCHANGED <<models, providers, files, saving, stored>>
    /\ UNCHANGED nonLibVars

\* Variant: the receiver yields its newest event first.
ChatStream_poll_next_newest ==
    /\ op # None
    /\ op.fn = "stream"
    /\ ret.tag = "ok"
    /\ ret.value.events # <<>>
    /\ consumed' = [consumed EXCEPT !.events =
                       Append(@, ret.value.events[Len(ret.value.events)])]
    /\ ret' = [ret EXCEPT !.value.events = SubSeq(@, 1, Len(@) - 1)]
    /\ UNCHANGED <<models, providers, invoked, op, upstream, files, saving, stored>>
    /\ UNCHANGED nonLibVars

\* The consumer polls the stream that ai.stream returned.
ChatStream_poll_next ==
    /\ op # None
    /\ op.fn = "stream"
    /\ ret.tag = "ok"
    /\ ret.value.events # <<>>
    /\ consumed' = [consumed EXCEPT !.events = Append(@, Head(ret.value.events))]
    /\ ret' = [ret EXCEPT !.value.events = Tail(@)]
    /\ UNCHANGED <<models, providers, invoked, op, upstream, files, saving, stored>>
    /\ UNCHANGED nonLibVars

\* Variant: result() leaves the future in the stream.
ChatStream_result_again ==
    /\ op # None
    /\ op.fn = "stream"
    /\ ret.tag = "ok"
    /\ Len(consumed.results) < MaxResults
    /\ consumed' = [consumed EXCEPT !.results =
                       Append(@, IF ret.value.result.some THEN ret.value.result.value
                                 ELSE PiError("Invalid", "stream result already taken"))]
    /\ UNCHANGED <<models, providers, invoked, op, ret, upstream, files, saving, stored>>
    /\ UNCHANGED nonLibVars

\* The consumer calls result() on the stream that ai.stream returned.
ChatStream_result ==
    /\ op # None
    /\ op.fn = "stream"
    /\ ret.tag = "ok"
    /\ Len(consumed.results) < MaxResults
    /\ consumed' = [consumed EXCEPT !.results =
                       Append(@, IF ret.value.result.some THEN ret.value.result.value
                                 ELSE PiError("Invalid", "stream result already taken"))]
    /\ ret' = [ret EXCEPT !.value.result = None]
    /\ UNCHANGED <<models, providers, invoked, op, upstream, files, saving, stored>>
    /\ UNCHANGED nonLibVars

ClientNext ==
    \/ \E ms \in SeqsUpTo(Models, MaxNew) : Catalog_new(ms)
    \/ \E ms \in SeqsUpTo(Models, MaxModels) : Catalog_extend(ms)
    \/ \E provider \in ProviderIds, client \in Clients : Hub_insert(provider, client)
    \/ AiClient_new
    \/ \E provider \in QueryProviders, id \in QueryIds : AiClient_model(provider, id)
    \/ \E model \in Models, answer \in ChatOutcomes : AiClient_complete(model, answer)
    \/ \E model \in Models, answer \in StreamOutcomes : AiClient_stream(model, answer)
    \/ ChatStream_poll_next
    \/ ChatStream_result

ClientSpec == ClientInit /\ [][ClientNext]_vars

\* --------------------------------------------------------- observations
\* The provider was called and answered `answer`.
Answered(fn) == op # None /\ op.fn = fn /\ upstream # None

\* The cost the client owes for the provider's response resp.
CostDue(cost, resp) ==
    IF resp.cost.some THEN resp.cost
    ELSE IF resp.usage.some THEN Some(estimate_usd(cost, resp.usage.value))
    ELSE None

\* The provider registered under the given id, if any.
RegisteredUnder(provider) == {e[2] : e \in {x \in providers : x[1] = provider}}

\* C21: complete returns the provider's response with the cost estimated
\* from the usage at the model's rates when the provider gave a usage and no
\* cost; a cost the provider gave is kept, without a usage the cost stays
\* absent, and the assistant message and the usage are returned as given.
C21_CompleteCost ==
    (Answered("complete") /\ upstream.value.tag = "ok") =>
        LET resp == upstream.value.value
        IN  /\ ret.tag = "ok"
            /\ ret.value.assistant = resp.assistant
            /\ ret.value.usage = resp.usage
            /\ resp.cost.some => ret.value.cost = resp.cost
            /\ (~resp.cost.some /\ resp.usage.some) =>
                   ret.value.cost = Some(estimate_usd(op.model.cost, resp.usage.value))
            /\ (~resp.cost.some /\ ~resp.usage.some) => ret.value.cost = None

C21_Witness ==
    /\ Answered("complete")
    /\ op.model = Model("stub", "m", TokenCost(1, 1, 0, 0))
    /\ upstream = Some(Ok(ChatResponse(Hi, Some(StubUsage), None)))
    /\ ret.tag = "ok"
    /\ ret.value.cost.some
    /\ ret.value.cost.value.total = Fraction(2000000, 1000000)

C21_CostKept ==
    /\ Answered("complete")
    /\ op.model = Model("stub", "m", TokenCost(1, 1, 0, 0))
    /\ upstream = Some(Ok(ChatResponse(Hi, Some(StubUsage), Some(ReportedCost))))
    /\ ret = upstream.value

\* C22: the stream that ai.stream returns yields the events of the
\* provider's stream, the same ones in the same order, and its result() is
\* the provider's final result with the cost filled in from the usage when
\* it was absent, a failed final result being handed on as it is.
C22_StreamThrough ==
    (Answered("stream") /\ upstream.value.tag = "ok") =>
        LET theirs == upstream.value.value
        IN  /\ ret.tag = "ok"
            /\ consumed.events \o ret.value.events = theirs.events
            /\ (consumed.results # <<>> /\ theirs.result.some) =>
                   LET r == theirs.result.value
                       mine == consumed.results[1]
                   IN  IF r.tag = "ok"
                       THEN /\ mine.tag = "ok"
                            /\ mine.value.assistant = r.value.assistant
                            /\ mine.value.usage = r.value.usage
                            /\ mine.value.cost = CostDue(op.model.cost, r.value)
                       ELSE mine = r
            /\ (consumed.results = <<>> /\ theirs.result.some) =>
                   /\ ret.value.result.some
                   /\ ret.value.result.value.tag = theirs.result.value.tag

C22_Witness ==
    /\ Answered("stream")
    /\ op.model = Model("stub", "m", TokenCost(1, 1, 0, 0))
    /\ upstream = Some(Ok(ChatStream_new(<<TextDelta("h"), TextDelta("i"), Done>>,
                                         Ok(ChatResponse(Hi, Some(StubUsage), None)))))
    /\ consumed.events = <<TextDelta("h"), TextDelta("i"), Done>>
    /\ Len(consumed.results) = 1
    /\ consumed.results[1].tag = "ok"
    /\ consumed.results[1].value.cost.some
    /\ consumed.results[1].value.cost.value.total = Fraction(2000000, 1000000)

C22_FailurePassed ==
    /\ Answered("stream")
    /\ upstream = Some(Ok(ChatStream_new(<<>>, PiError("Provider", "boom"))))
    /\ consumed.results = <<PiError("Provider", "boom")>>

\* C23: complete and stream on a model whose provider id has no entry in
\* the hub fail with Invalid and call no provider; with an entry they call
\* the provider registered under model.provider, and it alone, once.
C23_ProviderLookup ==
    (op # None /\ op.fn \in {"complete", "stream"}) =>
        IF RegisteredUnder(op.model.provider) = {}
        THEN /\ Failed(ret, "Invalid")
             /\ invoked = <<>>
        ELSE /\ Len(invoked) = 1
             /\ RegisteredUnder(op.model.provider) = {invoked[1].client}
             /\ invoked[1].method = (IF op.fn = "complete" THEN "chat" ELSE "chat_stream")

C23_Witness ==
    /\ op # None
    /\ op.fn = "stream"
    /\ op.model.provider = "stub"
    /\ providers = {<<"openai", "A">>}
    /\ ret = PiError("Invalid", "no provider registered: stub")
    /\ invoked = <<>>

C23_Registered ==
    /\ op # None
    /\ op.fn = "complete"
    /\ op.model.provider = "stub"
    /\ providers = {<<"openai", "A">>, <<"stub", "B">>}
    /\ Len(invoked) = 1
    /\ invoked[1].client = "B"

\* C24: model(provider, id) returns the first entry of the catalog, in the
\* order of insertion, whose provider and id are both the ones asked for,
\* whatever new and extend calls built the catalog, and fails with
\* Invalid("unknown model <provider>:<id>") when there is no such entry.
C24_FirstMatch ==
    (op # None /\ op.fn = "model") =>
        LET hits == {j \in 1..Len(models) :
                        models[j].provider = op.provider /\ models[j].id = op.id}
        IN  /\ hits # {} =>
                \E j \in hits : /\ \A h \in hits : j <= h
                                /\ ret = Ok(models[j])
            /\ hits = {} => /\ Failed(ret, "Invalid")
                            /\ ret.msg = "unknown model " \o op.provider \o ":" \o op.id
            /\ (op.provider = "nope" /\ op.id = "x") =>
                   ret = PiError("Invalid", "unknown model nope:x")

C24_Witness ==
    /\ op = A_model("openai", "m")
    /\ models = <<Model("openai", "m", TokenCost(1, 1, 0, 0)), Model("openai", "m", TokenCost_free)>>
    /\ ret = Ok(Model("openai", "m", TokenCost(1, 1, 0, 0)))

C24_Unknown ==
    /\ op = A_model("nope", "x")
    /\ models # <<>>
    /\ ret = PiError("Invalid", "unknown model nope:x")

\* =================================================================
\* The session store and the edit tool (adapters/adapter_fs/src/lib.rs).
\* =================================================================

\* ------------------------------------------------------------- transcripts
\* The JSON text of a message is three pieces: "{", the members, "}". The
\* members of the messages that occur, each one piece of text, and the
\* ChatMessage each deserializes to; an Assistant without tool calls is
\* written without the tool_calls member and read back with the default.
MessageTexts ==
    [U |-> user("hi"),
     A |-> assistant("yo", <<>>),
     C |-> assistant("", <<ToolCall("c1", "echo", [text |-> "hi"])>>),
     R |-> tool("c1", "hi")]

MembersOf(m) == CHOOSE k \in DOMAIN MessageTexts : MessageTexts[k] = m

RECURSIVE SerializeElements(_)
SerializeElements(ms) ==
    IF ms = <<>> THEN <<>>
    ELSE <<"{", MembersOf(Head(ms)), "}">>
         \o (IF Tail(ms) = <<>> THEN <<>> ELSE <<",">> \o SerializeElements(Tail(ms)))

\* serde_json::to_string_pretty(transcript).
to_string_pretty(tr) == <<"[">> \o SerializeElements(tr) \o <<"]">>

\* The elements of an array, read from the text between its brackets.
RECURSIVE ParseElements(_)
ParseElements(s) ==
    IF Len(s) < 3 \/ s[1] # "{" \/ s[2] \notin DOMAIN MessageTexts \/ s[3] # "}"
    THEN None
    ELSE IF Len(s) = 3 THEN Some(<<MessageTexts[s[2]]>>)
    ELSE IF s[4] # "," THEN None
    ELSE LET rest == ParseElements(SubSeq(s, 5, Len(s)))
         IN  IF rest.some THEN Some(<<MessageTexts[s[2]]>> \o rest.value) ELSE None

\* serde_json::from_str::<Transcript>(s).
from_str(s) ==
    IF s = <<>> THEN PiError("Json", "EOF while parsing a value")
    ELSE IF s[1] # "[" THEN PiError("Json", "expected value")
    ELSE IF s[Len(s)] # "]" \/ Len(s) = 1 THEN PiError("Json", "EOF while parsing a list")
    ELSE IF Len(s) = 2 THEN Ok(<<>>)
    ELSE LET elements == ParseElements(SubSeq(s, 2, Len(s) - 1))
         IN  IF elements.some THEN Ok(elements.value)
             ELSE PiError("Json", "EOF while parsing a list")

\* ------------------------------------------------------ JsonDirSessionStore
\* Variant: one file for every session.
JsonDirSessionStore_path_shared(id) == "session.json"

\* JsonDirSessionStore::path, relative to the directory.
JsonDirSessionStore_path(id) == id \o ".json"

\* JsonDirSessionStore::load on the directory as it is.
JsonDirSessionStore_load(dir, id) ==
    LET p == JsonDirSessionStore_path(id)
    IN  IF p \notin DOMAIN dir THEN Ok(None)
        ELSE LET parsed == from_str(dir[p])
             IN  IF parsed.tag = "ok" THEN Ok(Some(parsed.value)) ELSE parsed

\* ------------------------------------------------------------------ inputs
SessionIds == {"s1", "s2"}
Transcripts == {<<>>, <<user("hi")>>, <<user("hi"), assistant("yo", <<>>)>>,
                <<assistant("", <<ToolCall("c1", "echo", [text |-> "hi"])>>), tool("c1", "hi")>>}

\* ------------------------------------------------------------------ calls
\* A load, with what the store held for the id when the file was read: the
\* transcript of the last completed save, and the one being saved if a save
\* of the id was under way.
A_load(id, before, under_way) ==
    [fn |-> "load", id |-> id, before |-> before, under_way |-> under_way]
Saving(id, tr, text, written) ==
    [id |-> id, transcript |-> tr, text |-> text, written |-> written]

\* An empty directory, nothing saved.
StoreInit ==
    /\ AgentIdle
    /\ NoStream
    /\ models = <<>>
    /\ providers = {}
    /\ invoked = <<>>
    /\ op = None
    /\ ret = Pending
    /\ upstream = None
    /\ consumed = <<>>
    /\ files = <<>>
    /\ saving = None
    /\ stored = <<>>

\* save(id, transcript) up to the call of fs::write: the directory is made
\* and the transcript serialized.
Save_begin(id, tr) ==
    /\ saving = None
    /\ saving' = Some(Saving(id, tr, to_string_pretty(tr), -1))
    /\ UNCHANGED <<models, providers, invoked, op, ret, upstream, consumed, files, stored>>
    /\ UNCHANGED nonLibVars

\* fs::write opens the file: it is created, or truncated if it exists.
Save_open ==
    /\ saving # None
    /\ saving.value.written = -1
    /\ files' = Put(files, JsonDirSessionStore_path(saving.value.id), <<>>)
    /\ saving' = Some([saving.value EXCEPT !.written = 0])
    /\ UNCHANGED <<models, providers, invoked, op, ret, upstream, consumed, stored>>
    /\ UNCHANGED nonLibVars

\* write_all: one write, of some of the pieces of the text still to write.
Save_write ==
    /\ saving # None
    /\ saving.value.written >= 0
    /\ LET w == saving.value.written
           p == JsonDirSessionStore_path(saving.value.id)
       IN  \E n \in 1..(Len(saving.value.text) - w) :
               /\ files' = Put(files, p, files[p] \o SubSeq(saving.value.text, w + 1, w + n))
               /\ saving' = Some([saving.value EXCEPT !.written = w + n])
    /\ UNCHANGED <<models, providers, invoked, op, ret, upstream, consumed, stored>>
    /\ UNCHANGED nonLibVars

\* The text is written: save returns Ok(()).
Save_return ==
    /\ saving # None
    /\ saving.value.written = Len(saving.value.text)
    /\ stored' = Put(stored, saving.value.id, saving.value.transcript)
    /\ saving' = None
    /\ UNCHANGED <<models, providers, invoked, op, ret, upstream, consumed, files>>
    /\ UNCHANGED nonLibVars

\* load(id): the file is read as it is now.
Load(id) ==
    /\ op' = A_load(id,
                    IF id \in DOMAIN stored THEN Some(stored[id]) ELSE None,
                    IF saving # None /\ saving.value.id = id
                    THEN Some(saving.value.transcript) ELSE None)
    /\ ret' = JsonDirSessionStore_load(files, id)
    /\ UNCHANGED <<models, providers, invoked, upstream, consumed, files, saving, stored>>
    /\ UNCHANGED nonLibVars

StoreNext ==
    \/ \E id \in SessionIds, tr \in Transcripts : Save_begin(id, tr)
    \/ Save_open
    \/ Save_write
    \/ Save_return
    \/ \E id \in SessionIds : Load(id)

StoreSpec == StoreInit /\ [][StoreNext]_vars

\* C26: a load of an id with no save of that id under way returns the
\* transcript of the latest completed save of that id, whatever was saved
\* under other ids in between, and None, not an error, for an id never saved.
C26_RoundTrip ==
    (Returned("load") /\ ~op.under_way.some) => ret = Ok(op.before)

C26_Witness ==
    /\ Returned("load")
    /\ op.id = "s1"
    /\ ~op.under_way.some
    /\ "s2" \in DOMAIN stored
    /\ stored["s2"] = <<user("hi")>>
    /\ ret = Ok(Some(<<assistant("", <<ToolCall("c1", "echo", [text |-> "hi"])>>),
                       tool("c1", "hi")>>))

C26_NeverSaved ==
    /\ Returned("load")
    /\ op.id = "s1"
    /\ "s2" \in DOMAIN stored
    /\ "s1" \notin DOMAIN stored
    /\ saving = None
    /\ ret = Ok(None)

\* C27: a load of an id that runs while a save of that id is under way
\* returns the transcript stored before the save or the one being saved,
\* never an error, an empty or a partly written transcript.
C27_Original ==
    (Returned("load") /\ op.under_way.some) => ret \in {Ok(op.before), Ok(op.under_way)}

\* ---------------------------------------------------------------- EditTool
MaxTextLen == 3         \* longest file the edit tool is run on
MaxEdits == 2           \* most edits in one call

\* str::matches(pat).count(): the matches are found from left to right,
\* each search starting where the previous match ended; the empty pattern
\* matches at every character boundary.
RECURSIVE matches_count(_, _)
matches_count(txt, pat) ==
    IF pat = <<>> THEN Len(txt) + 1
    ELSE LET p == Find(txt, pat)
         IN  IF p = 0 THEN 0
             ELSE 1 + matches_count(SubSeq(txt, p + Len(pat), Len(txt)), pat)

\* str::replacen(pat, to, 1): the first match is replaced.
replacen(txt, pat, to) ==
    LET p == Find(txt, pat)
    IN  IF p = 0 THEN txt
        ELSE SubSeq(txt, 1, p - 1) \o to \o SubSeq(txt, p + Len(pat), Len(txt))

Edit(find, replace) == [find |-> find, replace |-> replace]

\* The loop of EditTool::execute from edit number k (0-based) on.
RECURSIVE ApplyEdits(_, _, _)
ApplyEdits(txt, edits, k) ==
    IF edits = <<>> THEN Ok(txt)
    ELSE LET e == Head(edits)
             n == matches_count(txt, e.find)
         IN  IF n # 1
             THEN PiError("Tool", "edit[" \o ToString(k)
                                  \o "]: expected 1 match for find-string, got "
                                  \o ToString(n))
             ELSE ApplyEdits(replacen(txt, e.find, e.replace), Tail(edits), k + 1)

\* ------------------------------------------------------------------ inputs
EditChars == {"a", "b"}
Finds == {<<>>, <<"a">>, <<"b">>, <<"a", "a">>, <<"a", "b">>}
Replaces == {<<>>, <<"b">>, <<"a", "a">>}
Edits == {Edit(find, replace) : find \in Finds, replace \in Replaces}
EditPath == "a.txt"

A_edit(path, edits, before) ==
    [fn |-> "edit", path |-> path, edits |-> edits, before |-> before]

\* The directory holds the file or not; the call is chosen.
EditInit ==
    /\ AgentIdle
    /\ NoStream
    /\ models = <<>>
    /\ providers = {}
    /\ invoked = <<>>
    /\ \/ files = <<>>
       \/ \E txt \in SeqsUpTo(EditChars, MaxTextLen) : files = Put(<<>>, EditPath, txt)
    /\ \E edits \in SeqsUpTo(Edits, MaxEdits) : op = A_edit(EditPath, edits, files)
    /\ ret = Pending
    /\ upstream = None
    /\ consumed = <<>>
    /\ saving = None
    /\ stored = <<>>

\* EditTool::execute(args, ctx).
EditTool_execute ==
    /\ op.fn = "edit"
    /\ ret = Pending
    /\ IF op.path \notin DOMAIN files
       THEN /\ ret' = PiError("Io", "No such file or directory")
            /\ UNCHANGED files
       ELSE LET txt == ApplyEdits(files[op.path], op.edits, 0)
            IN  IF txt.tag = "err"
                THEN /\ ret' = txt
                     /\ UNCHANGED files
                ELSE /\ files' = Put(files, op.path, txt.value)
                     /\ ret' = Ok("edited " \o op.path)
    /\ UNCHANGED <<models, providers, invoked, op, upstream, consumed, saving, stored>>
    /\ UNCHANGED nonLibVars

EditNext == EditTool_execute

EditSpec == EditInit /\ [][EditNext]_vars

\* --------------------------------------------------------- observations
\* The positions at which pat occurs in txt.
Occurrences(txt, pat) ==
    {p \in 1..(Len(txt) - Len(pat) + 1) : SubSeq(txt, p, p + Len(pat) - 1) = pat}

\* The text after the edits, each applied at the one place where its
\* find-string occurs in the text the preceding edits produced; None when
\* some find-string does not occur exactly once there.
RECURSIVE EditedOnce(_, _)
EditedOnce(txt, edits) ==
    IF edits = <<>> THEN Some(txt)
    ELSE LET e == Head(edits)
             at == Occurrences(txt, e.find)
         IN  IF Cardinality(at) # 1 THEN None
             ELSE LET p == CHOOSE q \in at : TRUE
                  IN  EditedOnce(SubSeq(txt, 1, p - 1) \o e.replace
                                 \o SubSeq(txt, p + Len(e.find), Len(txt)), Tail(edits))

\* The same with the occurrences counted as str::matches counts them.
RECURSIVE EditedOnceApart(_, _)
EditedOnceApart(txt, edits) ==
    IF edits = <<>> THEN Some(txt)
    ELSE LET e == Head(edits)
         IN  IF matches_count(txt, e.find) # 1 THEN None
             ELSE LET p == IF e.find = <<>> THEN 1
                           ELSE CHOOSE q \in Occurrences(txt, e.find) :
                                    \A r \in Occurrences(txt, e.find) : q <= r
                  IN  EditedOnceApart(SubSeq(txt, 1, p - 1) \o e.replace
                                      \o SubSeq(txt, p + Len(e.find), Len(txt)), Tail(edits))

\* C28: the edits are applied in order to a copy of the text; if the
\* find-string of some edit does not occur exactly once in the text the
\* preceding edits produced, the call fails with a Tool error and the file
\* is as it was, even when earlier edits matched; otherwise the file holds
\* the text after all the edits.
C28_Original ==
    (Returned("edit") /\ op.path \in DOMAIN op.before) =>
        LET wanted == EditedOnce(op.before[op.path], op.edits)
        IN  IF wanted.some
            THEN ret.tag = "ok" /\ files = Put(op.before, op.path, wanted.value)
            ELSE Failed(ret, "Tool") /\ files = op.before

\* The same with the occurrences of a find-string counted from left to
\* right without overlap.
C28_CountedApart ==
    (Returned("edit") /\ op.path \in DOMAIN op.before) =>
        LET wanted == EditedOnceApart(op.before[op.path], op.edits)
        IN  IF wanted.some
            THEN ret.tag = "ok" /\ files = Put(op.before, op.path, wanted.value)
            ELSE Failed(ret, "Tool") /\ files = op.before

\* A later edit fails after an earlier one matched: the file is as it was.
C28_LaterEditFails ==
    /\ Returned("edit")
    /\ op.before = Put(<<>>, EditPath, <<"a", "b">>)
    /\ op.edits = <<Edit(<<"a">>, <<"b">>), Edit(<<"b">>, <<>>)>>
    /\ ret = PiError("Tool", "edit[1]: expected 1 match for find-string, got 2")
    /\ files = op.before

\* =================================================================
\* Further properties of the ChatStream (core/src/lib.rs).
\* =================================================================

\* The stream in the consumer's hands.
TheStream == ret.value
ResultCalled == Len(consumed.results') = Len(consumed.results) + 1

\* C40: the final result of a ChatStream is taken once: the first result()
\* yields the result the stream holds, every later result() fails with
\* Invalid("stream result already taken"), and no result() changes the
\* events still to be received.
C40_ResultOnce ==
    /\ []((op # None /\ op.fn = "stream" /\ ret.tag = "ok") =>
            \A k \in 2..Len(consumed.results) :
                consumed.results[k] = PiError("Invalid", "stream result already taken"))
    /\ [][(op # None /\ op.fn = "stream" /\ ret.tag = "ok" /\ ResultCalled) =>
            /\ ret'.value.events = TheStream.events
            /\ consumed'.events = consumed.events
            /\ (consumed.results = <<>> /\ TheStream.result.some) =>
                   consumed'.results = <<TheStream.result.value>>]_vars

C40_Witness ==
    /\ op # None
    /\ op.fn = "stream"
    /\ ret.tag = "ok"
    /\ TheStream.events # <<>>
    /\ Len(consumed.results) = 2
    /\ consumed.results[1].tag = "ok"
    /\ consumed.results[2] = PiError("Invalid", "stream result already taken")


\* =================================================================
\* Further properties of the assembler (adapters/adapter_openai/src/lib.rs).

\* The id and the name stored for the index of the p-th fragment once that
\* fragment is applied: the newest ones received for the index.
StoredId(frags, p) ==
    LET qs == {q \in 1..p : frags[q].index = frags[p].index /\ frags[q].id # None}
    IN  frags[CHOOSE q \in qs : \A r \in qs : r <= q].id.value
StoredName(frags, p) ==
    LET qs == {q \in 1..p : frags[q].index = frags[p].index /\ HasName(frags[q])}
    IN  frags[CHOOSE q \in qs : \A r \in qs : r <= q].function.value.name.value

\* What a ToolCallDelta event tells of a fragment.
Told(id, name, arguments_delta) ==
    [id |-> id, name |-> name, arguments_delta |-> arguments_delta]

\* The fragments that carry arguments and arrive when the id and the name of
\* their index are known, as the events to expect for them.
Emittable(frags) ==
    LET ps == SelectSeq([p \in 1..Len(frags) |-> p],
                        LAMBDA p : HasArgs(frags[p]) /\ KnownAt(frags, p))
    IN  [n \in 1..Len(ps) |->
            Told(StoredId(frags, ps[n]), StoredName(frags, ps[n]),
                 frags[ps[n]].function.value.arguments.value)]

ToolCallDeltasOf(evs) ==
    LET own == EventsOf(evs, "ToolCallDelta")
    IN  [n \in 1..Len(own) |-> Told(own[n].id, own[n].name, own[n].arguments_delta)]

\* C32: the ToolCallDelta events emitted are, in order, one per applied
\* fragment that carries arguments and arrives when the id and the name of its
\* index are known (from it or from an earlier fragment), each with the id and
\* name stored for the index at that moment and the fragment's own argument
\* text; a fragment with arguments that arrives earlier gives no event, and
\* its text is kept in the arguments accumulated for the index.
C32_DeltaWhenKnown ==
    spc # "failed" =>
        /\ ToolCallDeltasOf(emitted) = Emittable(Fragments(applied))
        /\ \A k \in DOMAIN asm.tools :
              asm.tools[k].args = ArgsReceived(Fragments(applied), k, FALSE)

\* Arguments came first, then the header, then more arguments: one event, for
\* the last fragment only, and both texts accumulated.
C32_Witness ==
    /\ spc = "open"
    /\ Len(applied) = 3
    /\ Fragments(applied) = <<ArgsOnly(0, <<"{">>), Header(0), ArgsOnly(0, <<"}">>)>>
    /\ ToolCallDeltasOf(emitted) = <<Told(StreamIdAt(0), EchoName, <<"}">>)>>
    /\ asm.tools[0].args = <<"{", "}">>


\* C33: every failure of the assembler on a malformed stream is an error of
\* kind Provider: apply on a tool-call delta whose type is not "function", and
\* finish on a call whose id or name is missing, empty or blank or whose
\* arguments do not parse.
C33_Original ==
    /\ spc = "failed" => final.tag = "err" /\ final.kind = "Provider"
    /\ (spc = "finished" /\ \E k \in DOMAIN asm.tools :
                               Incomplete(asm.tools[k]) \/ BlankField(asm.tools[k])) =>
          final.tag = "err" /\ final.kind = "Provider"


\* =================================================================
\* Further properties of chat_stream (adapters/adapter_openai/src/lib.rs).

\* C36: when the transport ends or fails and the consumer polls the events to
\* the end, the final-result promise is resolved, so that result() resolves;
\* the task resolves it exactly when it ends (not before, and on every path
\* to its end), never a second time, and it sends no event afterwards.
C36_ResultResolves ==
    /\ <>(final # Pending)
    /\ [](spc = "end" <=> final # Pending)
    /\ [][final # Pending => (final' = final /\ emitted' = emitted)]_vars

\* The consumer has polled every event up to Done and the result is there.
C36_Witness ==
    /\ spc = "end"
    /\ rx = "alive"
    /\ final.tag = "ok"
    /\ queue = <<>>
    /\ received = emitted
    /\ Len(received) >= 4
    /\ Last(received) = Done


\* C37: when the consumer awaits result() without polling the events, the
\* final-result promise is still resolved, however many events the task has
\* to send.
C37_Original == <>(final # Pending)


\* The body of the run, yielded or still to come, and its text.
Body == transport.sent \o transport.rest
TextOfBytes(bytes) == from_utf8(bytes).value

\* The payloads of the complete events of a text that carry data, in order,
\* up to the sentinel; and whether each complete event of it carries data.
RECURSIVE PayloadsIn(_)
PayloadsIn(text) ==
    IF Boundary(text).at = 0 THEN <<>>
    ELSE LET r == next_sse_data(text)
         IN  IF r.data = None THEN PayloadsIn(r.buf)
             ELSE IF IsDoneSentinel(r.data.value) THEN <<>>
             ELSE <<Trim(r.data.value)>> \o PayloadsIn(r.buf)

RECURSIVE EveryEventHasData(_)
EveryEventHasData(text) ==
    \/ Boundary(text).at = 0
    \/ /\ next_sse_data(text).data # None
       /\ EveryEventHasData(next_sse_data(text).buf)

ChunksOf(payloads) == [n \in 1..Len(payloads) |-> DecodeChunk(payloads[n]).value]

\* The assembler and the events after the chunks are applied in order.
RECURSIVE ApplyAll(_, _, _)
ApplyAll(a, out, chunks) ==
    IF chunks = <<>> THEN [asm |-> a, out |-> out]
    ELSE LET r == Apply(a, Head(chunks))
         IN  ApplyAll(r.asm, out \o r.out, Tail(chunks))

\* What the task does with a text it gets in one read before the body ends.
InOneRead(text) ==
    LET chunks == ChunksOf(PayloadsIn(text))
        r == ApplyAll(StreamAssembler_default, <<>>, chunks)
    IN  [applied |-> chunks, emitted |-> Append(r.out, Done), final |-> Finish(r.asm)]

\* The task has sent Done and the result of finish, the consumer still there.
Finalised == spc = "end" /\ rx = "alive" /\ emitted # <<>> /\ Last(emitted) = Done

\* C38: when the task finalises, the chunks applied to the assembler are the
\* payloads of all complete events with data that the transport delivered
\* (before a sentinel), also of an event that came in one read behind an
\* event without data and was followed by no further bytes.
C38_Original ==
    Finalised => applied = ChunksOf(PayloadsIn(TextOfBytes(transport.sent)))

\* C39: for a body of valid UTF-8 in which every event carries data, the
\* chunks applied, the events emitted and the final result are those of the
\* body read in one piece, however the body is cut into reads.
C39_Original ==
    (spc = "end" /\ rx = "alive" /\ EveryEventHasData(TextOfBytes(Body))) =>
        /\ applied = InOneRead(TextOfBytes(Body)).applied
        /\ emitted = InOneRead(TextOfBytes(Body)).emitted
        /\ final = InOneRead(TextOfBytes(Body)).final

====
